---- MODULE Spec2Model ----
(***************************************************************************)
(* A model of mcpify's detection-and-matching pipeline: the composite      *)
(* detector, the detector constructors and factory, the function parser,   *)
(* the keyword ranking of the API matcher, the MCP tool schema and the     *)
(* static extractors of the OpenAI detector.                               *)
(*                                                                         *)
(* Every subsystem has its own variables and its own specification; a      *)
(* specification leaves the variables of the other subsystems at their     *)
(* idle value.  Text is modelled as a sequence of one-character strings    *)
(* wherever the code looks inside a string (startswith, replace, slicing). *)
(***************************************************************************)
EXTENDS Integers, Sequences, FiniteSets, TLC

VARIABLES
    detectors,      \* CompositeDetector.detectors
    detected,       \* what the last CompositeDetector._detect_tools call gave
    environ,        \* os.environ: the provider keys
    installed,      \* which optional packages the imports found
    built,          \* what the last constructor or factory call gave
    sourceFile,     \* the Python file handed to PythonParser.parse_file
    parsed,         \* what the last PythonParser.parse_file call gave
    functions,      \* the function inventory handed to the ranking
    user_request,   \* the free-text request
    ranked,         \* what the last APIMatcher._rank_with_keywords call gave
    candidate,      \* one function record, as its source is edited
    relevance,      \* what calculate_relevance_score gave for it, before and after
    mcp_tool,       \* an MCPTool
    schema,         \* what the last MCPTool.to_mcp_schema call gave
    add_argument_calls, \* the add_argument calls of a CLI file, in visiting order
    cli_tools,      \* what argparse extraction gave for the file
    route,          \* the path of a route decorator, as its segments
    func_name,      \* the function the decorator is on
    method,         \* the HTTP method handed to _process_route
    content,        \* what the regular expressions find in the file's text
    web_tool,       \* what the last _process_route call gave
    reply,          \* the elements a model means to send, in the array of its reply
    response,       \* the text of the response, as its tokens
    analysis,       \* what the last parse of the response gave
    available_functions,\* the functions handed to APIMatcher.generate_tools
    tool_specs,     \* the specifications the LLM analysis returned
    mcp_tools,      \* what the last APIMatcher.generate_tools call gave
    unfiltered,     \* the function list handed to APIMatcher.filter_functions
    filters,        \* the filter dictionary
    filtered,       \* what the last APIMatcher.filter_functions call gave
    comparisons,    \* the command comparisons in the text of a file, in order
    command_tools,  \* what interactive-command extraction gave for the file
    signature,      \* the children of the parameters node of a function definition
    extracted,      \* what the last _extract_parameters call gave
    project,        \* the project directory: whether it exists, and its top-level files
    openai_client,  \* whether the detector has an OpenAI client
    config,         \* what the last detect_project call gave
    requirements_txt,\* the lines of requirements.txt
    pyproject_toml, \* the lines of the dependencies list of pyproject.toml
    dependencies,   \* what the last dependency extraction gave
    readme,         \* the README of the project directory
    project_description,    \* what the last description extraction gave
    py_file,        \* the Python file of the repository the analyze command reads
    prompt,         \* what the last run of the pipeline handed on
    matcher,        \* the APIMatcher: its embedding provider and use_embeddings
    to_rank,        \* the functions handed to rank_functions_by_relevance
    ranking,        \* what the last rank_functions_by_relevance call gave
    ast_tree,       \* the definitions of the file generic extraction reads
    generic_tools,  \* what the last generic extraction gave
    runner,         \* the MCPServerRunner: active_servers, the processes it started, the clock
    last_call       \* the last call on the runner and the registry before it

compositeVars == <<detectors, detected>>
ctorVars == <<environ, installed, built>>
parserVars == <<sourceFile, parsed>>
rankVars == <<functions, user_request, ranked, candidate, relevance>>
schemaVars == <<mcp_tool, schema>>
argparseVars == <<add_argument_calls, cli_tools>>
routeVars == <<route, func_name, method, content, web_tool>>
llmVars == <<reply, response, analysis>>
generateVars == <<available_functions, tool_specs, mcp_tools>>
filterVars == <<unfiltered, filters, filtered>>
commandsVars == <<comparisons, command_tools>>
signatureVars == <<signature, extracted>>
projectVars == <<project, openai_client, config>>
dependenciesVars == <<requirements_txt, pyproject_toml, dependencies>>
readmeVars == <<readme, project_description>>
pipelineVars == <<py_file, prompt>>
embeddingVars == <<matcher, to_rank, ranking>>
genericVars == <<ast_tree, generic_tools>>
runnerVars == <<runner, last_call>>
vars == <<compositeVars, ctorVars, parserVars, rankVars, schemaVars, argparseVars, routeVars, llmVars, generateVars, filterVars, commandsVars, signatureVars, projectVars, dependenciesVars, readmeVars, pipelineVars, embeddingVars, genericVars, runnerVars>>

notRunner == <<compositeVars, ctorVars, parserVars, rankVars, schemaVars, argparseVars, routeVars, llmVars, generateVars, filterVars, commandsVars, signatureVars, projectVars, dependenciesVars, readmeVars, pipelineVars, embeddingVars, genericVars>>
notGeneric == <<compositeVars, ctorVars, parserVars, rankVars, schemaVars, argparseVars, routeVars, llmVars, generateVars, filterVars, commandsVars, signatureVars, projectVars, dependenciesVars, readmeVars, pipelineVars, embeddingVars, runnerVars>>
notEmbedding == <<compositeVars, ctorVars, parserVars, rankVars, schemaVars, argparseVars, routeVars, llmVars, generateVars, filterVars, commandsVars, signatureVars, projectVars, dependenciesVars, readmeVars, pipelineVars, genericVars, runnerVars>>
notPipeline == <<compositeVars, ctorVars, parserVars, rankVars, schemaVars, argparseVars, routeVars, llmVars, generateVars, filterVars, commandsVars, signatureVars, projectVars, dependenciesVars, readmeVars, embeddingVars, genericVars, runnerVars>>
notReadme == <<compositeVars, ctorVars, parserVars, rankVars, schemaVars, argparseVars, routeVars, llmVars, generateVars, filterVars, commandsVars, signatureVars, projectVars, dependenciesVars, pipelineVars, embeddingVars, genericVars, runnerVars>>
notDependencies == <<compositeVars, ctorVars, parserVars, rankVars, schemaVars, argparseVars, routeVars, llmVars, generateVars, filterVars, commandsVars, signatureVars, projectVars, readmeVars, pipelineVars, embeddingVars, genericVars, runnerVars>>
notProject == <<compositeVars, ctorVars, parserVars, rankVars, schemaVars, argparseVars, routeVars, llmVars, generateVars, filterVars, commandsVars, signatureVars, dependenciesVars, readmeVars, pipelineVars, embeddingVars, genericVars, runnerVars>>
notSignature == <<compositeVars, ctorVars, parserVars, rankVars, schemaVars, argparseVars, routeVars, llmVars, generateVars, filterVars, commandsVars, projectVars, dependenciesVars, readmeVars, pipelineVars, embeddingVars, genericVars, runnerVars>>
notCommands == <<compositeVars, ctorVars, parserVars, rankVars, schemaVars, argparseVars, routeVars, llmVars, generateVars, filterVars, signatureVars, projectVars, dependenciesVars, readmeVars, pipelineVars, embeddingVars, genericVars, runnerVars>>
notFilter == <<compositeVars, ctorVars, parserVars, rankVars, schemaVars, argparseVars, routeVars, llmVars, generateVars, commandsVars, signatureVars, projectVars, dependenciesVars, readmeVars, pipelineVars, embeddingVars, genericVars, runnerVars>>
notGenerate == <<compositeVars, ctorVars, parserVars, rankVars, schemaVars, argparseVars, routeVars, llmVars, filterVars, commandsVars, signatureVars, projectVars, dependenciesVars, readmeVars, pipelineVars, embeddingVars, genericVars, runnerVars>>
notLlm == <<compositeVars, ctorVars, parserVars, rankVars, schemaVars, argparseVars, routeVars, generateVars, filterVars, commandsVars, signatureVars, projectVars, dependenciesVars, readmeVars, pipelineVars, embeddingVars, genericVars, runnerVars>>
notComposite == <<ctorVars, parserVars, rankVars, schemaVars, argparseVars, routeVars, llmVars, generateVars, filterVars, commandsVars, signatureVars, projectVars, dependenciesVars, readmeVars, pipelineVars, embeddingVars, genericVars, runnerVars>>
notCtor == <<compositeVars, parserVars, rankVars, schemaVars, argparseVars, routeVars, llmVars, generateVars, filterVars, commandsVars, signatureVars, projectVars, dependenciesVars, readmeVars, pipelineVars, embeddingVars, genericVars, runnerVars>>
notParser == <<compositeVars, ctorVars, rankVars, schemaVars, argparseVars, routeVars, llmVars, generateVars, filterVars, commandsVars, signatureVars, projectVars, dependenciesVars, readmeVars, pipelineVars, embeddingVars, genericVars, runnerVars>>
notRank == <<compositeVars, ctorVars, parserVars, schemaVars, argparseVars, routeVars, llmVars, generateVars, filterVars, commandsVars, signatureVars, projectVars, dependenciesVars, readmeVars, pipelineVars, embeddingVars, genericVars, runnerVars>>
notArgparse == <<compositeVars, ctorVars, parserVars, rankVars, schemaVars, routeVars, llmVars, generateVars, filterVars, commandsVars, signatureVars, projectVars, dependenciesVars, readmeVars, pipelineVars, embeddingVars, genericVars, runnerVars>>
notRoute == <<compositeVars, ctorVars, parserVars, rankVars, schemaVars, argparseVars, llmVars, generateVars, filterVars, commandsVars, signatureVars, projectVars, dependenciesVars, readmeVars, pipelineVars, embeddingVars, genericVars, runnerVars>>
notSchema == <<compositeVars, ctorVars, parserVars, rankVars, argparseVars, routeVars, llmVars, generateVars, filterVars, commandsVars, signatureVars, projectVars, dependenciesVars, readmeVars, pipelineVars, embeddingVars, genericVars, runnerVars>>

(***************************************************************************)
(* Generic helpers                                                         *)
(***************************************************************************)
Range(s) == {s[i] : i \in DOMAIN s}

SeqsUpTo(S, n) == UNION {[1..k -> S] : k \in 0..n}

\* str.startswith on text held as a sequence of characters
StartsWith(s, prefix) ==
    Len(s) >= Len(prefix) /\ SubSeq(s, 1, Len(prefix)) = prefix

\* Text the code splits into words is a sequence of atoms: a separator (" ",
\* "_" or "/") or a run of other characters.  str.lower on one atom:
Lower(s) ==
    CASE s = "OpenAI" -> "openai"
      [] s = "Add" -> "add"
      [] s = "Numbers" -> "numbers"
      [] s = "Flask" -> "flask"
      [] OTHER -> s

\* str.lower
LowerText(t) == [i \in DOMAIN t |-> Lower(t[i])]

\* str.replace(old, new) for one-character old and new
ReplaceChar(t, old, new) == [i \in DOMAIN t |-> IF t[i] = old THEN new ELSE t[i]]

\* str.split(): the maximal runs without white space, as a sequence of words
\* (each word the sequence of its atoms)
RECURSIVE SplitFrom(_, _)
SplitFrom(t, word) ==
    IF t = <<>> THEN (IF word = <<>> THEN <<>> ELSE <<word>>)
    ELSE IF Head(t) = " "
         THEN (IF word = <<>> THEN <<>> ELSE <<word>>) \o SplitFrom(Tail(t), <<>>)
    ELSE SplitFrom(Tail(t), Append(word, Head(t)))

Split(t) == SplitFrom(t, <<>>)

\* len() of a text: the characters of its atoms
LongRun == "Adds-the-two-given-operands-and-returns-their-arithmetic-sum"

AtomLen(a) ==
    CASE a \in {" ", "_", "/"} -> 1
      [] a \in {"add", "Add", "two", "src"} -> 3
      [] a \in {"numbers", "Numbers", "calc.py"} -> 7
      [] a = "unrelated" -> 9
      [] a = LongRun -> 60

RECURSIVE TextLen(_)
TextLen(t) == IF t = <<>> THEN 0 ELSE AtomLen(Head(t)) + TextLen(Tail(t))

RECURSIVE Concat(_)
Concat(ss) == IF ss = <<>> THEN <<>> ELSE Head(ss) \o Concat(Tail(ss))

(***************************************************************************)
(* detect/composite.py                                                     *)
(***************************************************************************)
MaxDetectors == 3
MaxTools == 2
MaxProposed == 4    \* tools over all strategies of one composite

\* ToolSpec (detect/types.py): composite detection reads only the name; the
\* description stands for the rest of the record, which is carried untouched.
ToolSpecs ==
    { [name |-> "foo", description |-> "from A"],
      [name |-> "foo", description |-> "from B"],
      [name |-> "bar", description |-> "from A"] }

\* What a strategy's _detect_tools does when called: it raises, or it returns
\* a list of tools.
DetectorBehaviours ==
    { [raises |-> TRUE, tools |-> <<>>] }
      \cup { [raises |-> FALSE, tools |-> ts] : ts \in SeqsUpTo(ToolSpecs, MaxTools) }

\* The body of the inner for loop: one tool of one detector's output.
MergeToolFirstWins(acc, tool) ==
    IF tool.name \notin acc.tool_names
    THEN [acc EXCEPT !.all_tools = Append(@, tool),
                     !.tool_names = @ \cup {tool.name}]
    ELSE acc

MergeToolNoDedup(acc, tool) ==
    [acc EXCEPT !.all_tools = Append(@, tool),
                !.tool_names = @ \cup {tool.name}]

MergeTool(acc, tool) == MergeToolFirstWins(acc, tool)

RECURSIVE MergeTools(_, _)
MergeTools(acc, tools) ==
    IF tools = <<>> THEN acc
    ELSE MergeTools(MergeTool(acc, Head(tools)), Tail(tools))

\* The body of the outer for loop: try the detector, merge its tools, and on
\* any exception print a warning and go on.
DetectorStepCaught(acc, d) ==
    IF acc.raised THEN acc
    ELSE IF d.raises THEN acc
    ELSE MergeTools(acc, d.tools)

DetectorStepUncaught(acc, d) ==
    IF acc.raised THEN acc
    ELSE IF d.raises THEN [acc EXCEPT !.raised = TRUE]
    ELSE MergeTools(acc, d.tools)

DetectorStep(acc, d) == DetectorStepCaught(acc, d)

RECURSIVE DetectorLoop(_, _)
DetectorLoop(acc, ds) ==
    IF ds = <<>> THEN acc
    ELSE DetectorLoop(DetectorStep(acc, Head(ds)), Tail(ds))

\* CompositeDetector._detect_tools: the outcome is the returned list, or an
\* exception that left the method (raised).
CompositeDetectTools(ds) ==
    LET acc == DetectorLoop([all_tools |-> <<>>, tool_names |-> {}, raised |-> FALSE], ds)
    IN  [called |-> TRUE,
         raised |-> acc.raised,
         tools |-> IF acc.raised THEN <<>> ELSE acc.all_tools]

NotDetected == [called |-> FALSE, raised |-> FALSE, tools |-> <<>>]

CompositeIdle ==
    /\ detectors = <<>>
    /\ detected = NotDetected

\* CompositeDetector.add_detector
AddDetector ==
    /\ Len(detectors) < MaxDetectors
    /\ \E d \in DetectorBehaviours :
          /\ Len(Concat([i \in DOMAIN detectors |-> detectors[i].tools]))
                + Len(d.tools) <= MaxProposed
          /\ detectors' = Append(detectors, d)
    /\ detected' = NotDetected
    /\ UNCHANGED notComposite

\* CompositeDetector._detect_tools on the current list
DetectTools ==
    /\ ~detected.called
    /\ detected' = CompositeDetectTools(detectors)
    /\ UNCHANGED detectors
    /\ UNCHANGED notComposite

\* ---- claims about composite detection ----

\* The tools the non-failing strategies proposed, in list order.
Proposed == Concat([i \in DOMAIN detectors |->
                      IF detectors[i].raises THEN <<>> ELSE detectors[i].tools])

FirstProposal(name) ==
    Proposed[CHOOSE i \in DOMAIN Proposed :
                /\ Proposed[i].name = name
                /\ \A j \in 1..(i - 1) : Proposed[j].name # name]

\* C1: composite detection never returns two tools with the same name, and the
\* record returned for a name is the one of the earliest strategy (and earliest
\* position in its output) that proposed the name.
C1_FirstWriterWins ==
    (detected.called /\ ~detected.raised) =>
        /\ \A i, j \in DOMAIN detected.tools :
              detected.tools[i].name = detected.tools[j].name => i = j
        /\ \A i \in DOMAIN detected.tools :
              /\ \E k \in DOMAIN Proposed : Proposed[k].name = detected.tools[i].name
              /\ detected.tools[i] = FirstProposal(detected.tools[i].name)

C1_Witness ==
    /\ detected.called
    /\ Len(detectors) >= 2
    /\ ~detectors[1].raises /\ ~detectors[2].raises
    /\ [name |-> "foo", description |-> "from A"] \in Range(detectors[1].tools)
    /\ [name |-> "foo", description |-> "from B"] \in Range(detectors[2].tools)
    /\ [name |-> "foo", description |-> "from A"] \in Range(detected.tools)

\* The first occurrence of every name of a list, in the list's order.
FirstOccurrences(ts) ==
    LET keep == {i \in DOMAIN ts : \A j \in 1..(i - 1) : ts[j].name # ts[i].name}
        F[i \in 0..Len(ts)] ==
            IF i = 0 THEN <<>>
            ELSE IF i \in keep THEN Append(F[i - 1], ts[i]) ELSE F[i - 1]
    IN  F[Len(ts)]

\* C2: when a strategy raises, no exception leaves _detect_tools and the result
\* is the deduplicated tools of the non-failing strategies, in list order.
C2_FailureIsSkipped ==
    (detected.called /\ \E i \in DOMAIN detectors : detectors[i].raises) =>
        /\ ~detected.raised
        /\ detected.tools = FirstOccurrences(Proposed)

C2_Witness ==
    /\ detected.called
    /\ Len(detectors) = 3
    /\ ~detectors[1].raises /\ detectors[2].raises /\ ~detectors[3].raises
    /\ detectors[1].tools # <<>> /\ detectors[3].tools # <<>>
    /\ detectors[1].tools[1].name # detectors[3].tools[1].name
    /\ Len(detected.tools) = 2

(***************************************************************************)
(* Constructors of the LLM-backed strategies and the detector factory      *)
(* detect/openai.py, detect/camel.py, core/semantic/llm_client.py,         *)
(* detect/factory.py                                                       *)
(***************************************************************************)
Unset == "<unset>"          \* os.getenv gives None; an argument left at None
EnvValues == {Unset, "", "sk-env"}
KeyArgs == {Unset, "", "sk-arg"}

\* Python truthiness of an optional string
Truthy(s) == s \notin {Unset, ""}

Providers == {"openai", "OpenAI", "anthropic", "cohere"}
ModelArgs == {Unset, "gpt-4"}
DetectorTypes == {"auto", "openai", "ast", "composite", "claude"}

Instance(cls, client) == [called |-> TRUE, raised |-> "none", cls |-> cls,
                          client |-> client, detectors |-> <<>>, tried |-> <<>>]
Raised(cls, exc) == [called |-> TRUE, raised |-> exc, cls |-> cls,
                     client |-> "none", detectors |-> <<>>, tried |-> <<>>]
NotBuilt == [called |-> FALSE, raised |-> "none", cls |-> "none",
             client |-> "none", detectors |-> <<>>, tried |-> <<>>]

\* OpenaiDetector.__init__
OpenaiDetectorInit(openai_api_key, env) ==
    IF Truthy(openai_api_key) THEN Instance("OpenaiDetector", "openai")
    ELSE IF Truthy(env.OPENAI_API_KEY) THEN Instance("OpenaiDetector", "openai")
    ELSE Instance("OpenaiDetector", "none")     \* prints a warning only

\* CamelDetector.__init__
CamelDetectorInit(env, inst) ==
    IF ~inst.camel THEN Raised("CamelDetector", "ImportError")
    ELSE IF ~Truthy(env.OPENAI_API_KEY) THEN Raised("CamelDetector", "ValueError")
    ELSE Instance("CamelDetector", "ChatAgent")

\* LLMClient._get_default_model
GetDefaultModel(provider) ==
    IF provider = "openai" THEN [raised |-> "none", model |-> "gpt-4"]
    ELSE IF provider = "anthropic"
         THEN [raised |-> "none", model |-> "claude-3-sonnet-20240229"]
    ELSE [raised |-> "ValueError", model |-> Unset]

\* LLMClient._initialize_client
InitializeClient(provider, env, inst) ==
    IF provider = "openai" THEN
        IF ~inst.openai THEN Raised("LLMClient", "ImportError")
        ELSE IF ~Truthy(env.OPENAI_API_KEY) THEN Raised("LLMClient", "ValueError")
        ELSE Instance("LLMClient", "openai.OpenAI")
    ELSE IF provider = "anthropic" THEN
        IF ~inst.anthropic THEN Raised("LLMClient", "ImportError")
        ELSE IF ~Truthy(env.ANTHROPIC_API_KEY) THEN Raised("LLMClient", "ValueError")
        ELSE Instance("LLMClient", "anthropic.Anthropic")
    ELSE Raised("LLMClient", "ValueError")

\* LLMClient.__init__
LLMClientInit(provider, model, env, inst) ==
    LET p == Lower(provider)
        m == IF Truthy(model) THEN [raised |-> "none", model |-> model]
             ELSE GetDefaultModel(p)
    IN  IF m.raised # "none" THEN Raised("LLMClient", m.raised)
        ELSE InitializeClient(p, env, inst)

\* AstDetector(**kwargs): the static strategy needs no credentials and no
\* network, so its construction succeeds.
AstDetectorInit == Instance("AstDetector", "none")

\* One construction attempt of a factory, as the factory sees it.
Attempt(r) == [cls |-> r.cls, raised |-> r.raised]

\* _create_auto_detector: OpenaiDetector first; on any exception AstDetector.
CreateAutoOpenaiFirst(openai_api_key, env) ==
    LET o == OpenaiDetectorInit(openai_api_key, env)
    IN  IF o.raised = "none"
        THEN [o EXCEPT !.tried = <<Attempt(o)>>]
        ELSE [AstDetectorInit EXCEPT !.tried = <<Attempt(o), Attempt(AstDetectorInit)>>]

CreateAutoAstFirst(openai_api_key, env) ==
    [AstDetectorInit EXCEPT !.tried = <<Attempt(AstDetectorInit)>>]

CreateAutoDetector(openai_api_key, env) == CreateAutoOpenaiFirst(openai_api_key, env)

\* _create_composite_detector: OpenaiDetector if it constructs, then AstDetector.
CreateCompositeDetector(openai_api_key, env) ==
    LET o == OpenaiDetectorInit(openai_api_key, env)
        first == IF o.raised = "none" THEN <<o.cls>> ELSE <<>>
    IN  [Instance("CompositeDetector", "none") EXCEPT
            !.detectors = first \o <<AstDetectorInit.cls>>,
            !.tried = <<Attempt(o), Attempt(AstDetectorInit)>>]

\* create_detector
CreateDetector(detector_type, openai_api_key, env) ==
    IF detector_type = "auto" THEN CreateAutoDetector(openai_api_key, env)
    ELSE IF detector_type \notin {"openai", "ast", "composite"}
         THEN Raised("none", "ValueError")
    ELSE IF detector_type = "openai" THEN OpenaiDetectorInit(openai_api_key, env)
    ELSE IF detector_type = "ast" THEN AstDetectorInit
    ELSE CreateCompositeDetector(openai_api_key, env)

\* create_local_only_detector
CreateLocalOnlyDetector == AstDetectorInit

\* A call and what it gave.
Call(fn, key, provider, detector_type, r) ==
    [fn |-> fn, key |-> key, provider |-> provider,
     detector_type |-> detector_type, result |-> r]

NoCall == Call("none", Unset, "none", "none", NotBuilt)

CtorIdle ==
    /\ environ = [OPENAI_API_KEY |-> Unset, ANTHROPIC_API_KEY |-> Unset]
    /\ installed = [openai |-> TRUE, anthropic |-> TRUE, camel |-> TRUE]
    /\ built = NoCall

\* The process starts with some environment and some set of installed packages.
CtorInit ==
    /\ environ \in [{"OPENAI_API_KEY", "ANTHROPIC_API_KEY"} -> EnvValues]
    /\ installed \in [{"openai", "anthropic", "camel"} -> BOOLEAN]
    /\ built = NoCall

\* os.environ[name] = value, or del os.environ[name], between constructions
SetEnv ==
    /\ \E n \in DOMAIN environ, v \in EnvValues :
          /\ environ[n] # v
          /\ environ' = [environ EXCEPT ![n] = v]
    /\ built' = NoCall
    /\ UNCHANGED installed
    /\ UNCHANGED notCtor

\* detect/openai.py imports openai unconditionally, so OpenaiDetector and the
\* factory exist only where the package is installed.
ConstructOpenaiDetector ==
    /\ installed.openai
    /\ \E k \in KeyArgs :
          built' = Call("OpenaiDetector", k, "none", "none",
                        OpenaiDetectorInit(k, environ))
    /\ UNCHANGED <<environ, installed>>
    /\ UNCHANGED notCtor

\* CamelDetector takes no key argument: the key comes from the environment.
ConstructCamelDetector ==
    /\ built' = Call("CamelDetector", Unset, "none", "none",
                     CamelDetectorInit(environ, installed))
    /\ UNCHANGED <<environ, installed>>
    /\ UNCHANGED notCtor

\* LLMClient takes no key argument either.
ConstructLLMClient ==
    /\ \E p \in Providers, m \in ModelArgs :
          built' = Call("LLMClient", Unset, p, "none",
                        LLMClientInit(p, m, environ, installed))
    /\ UNCHANGED <<environ, installed>>
    /\ UNCHANGED notCtor

CallCreateDetector ==
    /\ installed.openai
    /\ \E t \in DetectorTypes, k \in KeyArgs :
          built' = Call("create_detector", k, "none", t,
                        CreateDetector(t, k, environ))
    /\ UNCHANGED <<environ, installed>>
    /\ UNCHANGED notCtor

CallCreateLocalOnlyDetector ==
    /\ installed.openai
    /\ built' = Call("create_local_only_detector", Unset, "none", "none",
                     CreateLocalOnlyDetector)
    /\ UNCHANGED <<environ, installed>>
    /\ UNCHANGED notCtor

\* ---- claims about construction ----

\* The environment variable a class reads its key from.
KeyVariable(call) ==
    IF call.fn = "LLMClient" /\ Lower(call.provider) = "anthropic"
    THEN "ANTHROPIC_API_KEY" ELSE "OPENAI_API_KEY"

\* C3: constructing an LLM-backed strategy (OpenaiDetector, CamelDetector,
\* LLMClient) with no key argument and no key in the environment raises at
\* construction; it never gives a usable instance.
C3_NoKeyRaises ==
    ( /\ built.fn \in {"OpenaiDetector", "CamelDetector", "LLMClient"}
      /\ built.key = Unset
      /\ environ[KeyVariable(built)] = Unset )
    => built.result.raised # "none"

MaxNodes == 3

FunctionNames ==
    { <<"f">>, <<"_", "g">>, <<"_", "_", "h", "_", "_">>, <<"_", "_", "k">> }
ClassNames == { <<"C">> }

\* The children of a function's "parameters" node, as tree-sitter names them.
ParamNode(kind, name) == [kind |-> kind, name |-> name]
ParameterLists ==
    { <<>>,
      <<ParamNode("identifier", "self"), ParamNode("typed_parameter", "cls"),
        ParamNode("identifier", "a"), ParamNode("typed_parameter", "x"),
        ParamNode("default_parameter", "y"), ParamNode("typed_default_parameter", "z"),
        ParamNode("list_splat_pattern", "args")>> }

FunctionNode(name, params, depth) ==
    [type |-> "function_definition", name |-> name, params |-> params, depth |-> depth]
ClassNode(name, depth) ==
    [type |-> "class_definition", name |-> name, params |-> <<>>, depth |-> depth]

\* The positions of the nodes of the subtree rooted at position i (i itself
\* included), in preorder; position 0 is the root of the file.
Subtree(nodes, i) ==
    IF i = 0 THEN DOMAIN nodes
    ELSE {i} \cup {j \in DOMAIN nodes :
                     /\ j > i
                     /\ \A k \in (i + 1)..j : nodes[k].depth > nodes[i].depth}

\* A set of positions as the increasing sequence of its elements.
RECURSIVE InOrder(_)
InOrder(S) ==
    IF S = {} THEN <<>>
    ELSE LET m == CHOOSE x \in S : \A y \in S : x <= y
         IN  <<m>> \o InOrder(S \ {m})

\* PythonParser._find_nodes_by_type: the nodes of one type under a node (the
\* node itself included), in preorder.
FindNodesByType(nodes, root, node_type) ==
    InOrder({j \in Subtree(nodes, root) : j # 0 /\ nodes[j].type = node_type})

\* PythonParser._extract_parameters
RECURSIVE CollectParameters(_)
CollectParameters(children) ==
    IF children = <<>> THEN <<>>
    ELSE LET c == Head(children)
             rest == CollectParameters(Tail(children))
         IN  IF c.kind = "identifier"
             THEN <<[name |-> c.name, type_annotation |-> "None",
                     default_value |-> "None", is_required |-> TRUE]>> \o rest
             ELSE IF c.kind = "typed_parameter"
             THEN <<[name |-> c.name, type_annotation |-> "int",
                     default_value |-> "None", is_required |-> TRUE]>> \o rest
             ELSE IF c.kind = "default_parameter"
             THEN <<[name |-> c.name, type_annotation |-> "None",
                     default_value |-> "1", is_required |-> FALSE]>> \o rest
             ELSE IF c.kind = "typed_default_parameter"
             THEN <<[name |-> c.name, type_annotation |-> "int",
                     default_value |-> "1", is_required |-> FALSE]>> \o rest
             ELSE rest

ExtractParametersSelfOnly(params) ==
    SelectSeq(CollectParameters(params), LAMBDA q : q.name # "self")

ExtractParameters(params) ==
    SelectSeq(CollectParameters(params), LAMBDA q : q.name \notin {"self", "cls"})

\* The private-name test of _extract_function_info
SkipsPrivateName(function_name) ==
    StartsWith(function_name, <<"_">>) /\ ~StartsWith(function_name, <<"_", "_">>)

SkipsEveryUnderscoreName(function_name) ==
    StartsWith(function_name, <<"_">>)

SkipsNoName(function_name) == FALSE

SkipsName(function_name) == SkipsPrivateName(function_name)

\* PythonParser._extract_function_info: the records it gives for the node at
\* position i, none when it returns None.
ExtractFunctionInfo(nodes, i, class_name, is_method) ==
    IF SkipsName(nodes[i].name) THEN <<>>
    ELSE <<[name |-> nodes[i].name,
            line_number |-> i,
            parameters |-> ExtractParameters(nodes[i].params),
            is_method |-> is_method,
            class_name |-> class_name]>>

NoClass == <<>>     \* class_name = None

\* PythonParser.parse_file
ParseFile(file) ==
    IF ~file.readable THEN <<>>
    ELSE
      LET nodes == file.nodes
          fns == FindNodesByType(nodes, 0, "function_definition")
          classes == FindNodesByType(nodes, 0, "class_definition")
          plain == Concat([k \in DOMAIN fns |->
                             ExtractFunctionInfo(nodes, fns[k], NoClass, FALSE)])
          MethodsOf(c) ==
              LET ms == FindNodesByType(nodes, c, "function_definition")
              IN  Concat([k \in DOMAIN ms |->
                            ExtractFunctionInfo(nodes, ms[k], nodes[c].name, TRUE)])
          methods == Concat([k \in DOMAIN classes |-> MethodsOf(classes[k])])
      IN  plain \o methods

NotParsed == [called |-> FALSE, functions |-> <<>>]

ParserIdle ==
    /\ sourceFile = [readable |-> TRUE, nodes |-> <<>>]
    /\ parsed = NotParsed

ParserInit ==
    /\ sourceFile \in [readable : BOOLEAN, nodes : {<<>>}]
    /\ parsed = NotParsed

\* The file's next definition, nested in the last one, beside it or further out.
WriteDefinition ==
    /\ Len(sourceFile.nodes) < MaxNodes
    /\ \E depth \in 0..(IF sourceFile.nodes = <<>> THEN 0
                        ELSE sourceFile.nodes[Len(sourceFile.nodes)].depth + 1) :
          \E n \in {FunctionNode(name, ps, depth) :
                        name \in FunctionNames, ps \in ParameterLists}
                    \cup {ClassNode(name, depth) : name \in ClassNames} :
             sourceFile' = [sourceFile EXCEPT !.nodes = Append(@, n)]
    /\ parsed' = NotParsed
    /\ UNCHANGED notParser

CallParseFile ==
    /\ ~parsed.called
    /\ parsed' = [called |-> TRUE, functions |-> ParseFile(sourceFile)]
    /\ UNCHANGED sourceFile
    /\ UNCHANGED notParser

\* ---- claims about the parser ----

LeadingUnderscores(name) ==
    Cardinality({i \in DOMAIN name : \A j \in 1..i : name[j] = "_"})

EmittedFor(i) == \E k \in DOMAIN parsed.functions : parsed.functions[k].line_number = i

ClassesAround(i) ==
    {j \in DOMAIN sourceFile.nodes :
        /\ j < i
        /\ sourceFile.nodes[j].type = "class_definition"
        /\ i \in Subtree(sourceFile.nodes, j)}

\* The class whose body directly holds the definition at position i.
EnclosingClass(i) ==
    CHOOSE j \in ClassesAround(i) : \A k \in ClassesAround(i) : k <= j

\* C26: every FunctionInfo parse_file gives for a function defined inside a
\* class body has is_method true and the name of its directly enclosing
\* class, and no function definition gets more than one FunctionInfo.
C26_MethodsOnceWithTheirClass ==
    (parsed.called /\ sourceFile.readable) =>
        /\ \A k \in DOMAIN parsed.functions :
              LET i == parsed.functions[k].line_number
              IN  ClassesAround(i) # {} =>
                      /\ parsed.functions[k].is_method
                      /\ parsed.functions[k].class_name
                            = sourceFile.nodes[EnclosingClass(i)].name
        /\ \A k, l \in DOMAIN parsed.functions :
              parsed.functions[k].line_number = parsed.functions[l].line_number => k = l

\* C26, for the functions outside every class: each gets at most one
\* FunctionInfo, which is no method and has no class name.
C26_PlainFunctionsOnce ==
    (parsed.called /\ sourceFile.readable) =>
        \A k, l \in DOMAIN parsed.functions :
            LET i == parsed.functions[k].line_number
            IN  ClassesAround(i) = {} =>
                    /\ ~parsed.functions[k].is_method
                    /\ parsed.functions[k].class_name = NoClass
                    /\ (parsed.functions[l].line_number = i => k = l)

\* C5: a function definition of a parsed file gets a FunctionInfo exactly when
\* its name does not start with exactly one underscore; dunder names are kept.
C5_SingleUnderscoreExcluded ==
    (parsed.called /\ sourceFile.readable) =>
        \A i \in DOMAIN sourceFile.nodes :
            sourceFile.nodes[i].type = "function_definition" =>
                (EmittedFor(i) <=> LeadingUnderscores(sourceFile.nodes[i].name) # 1)

C5_Witness ==
    /\ parsed.called /\ sourceFile.readable
    /\ \E i, j \in DOMAIN sourceFile.nodes :
          /\ sourceFile.nodes[i].type = "function_definition"
          /\ sourceFile.nodes[j].type = "function_definition"
          /\ sourceFile.nodes[i].name = <<"_", "g">>
          /\ sourceFile.nodes[j].name = <<"_", "_", "h", "_", "_">>
          /\ ~EmittedFor(i) /\ EmittedFor(j)

(***************************************************************************)
(* core/semantic/api_matcher.py: keyword ranking                           *)
(*                                                                         *)
(* The scores of the code are multiples of 0.5; the model holds twice the  *)
(* score, an integer.                                                      *)
(***************************************************************************)
MaxFunctions == 2

NameWeight2 == 6            \* len(...) * 3
DocWeight2 == 4             \* len(...) * 2
ClassWeight2 == 3           \* len(...) * 1.5
FileWeight2 == 2            \* len(...) * 1
DocBonus2 == 2              \* score += 1
ParamBonus2 == 1            \* score += 0.5
DocBonusLength == 50
MinBonusParams == 1
MaxBonusParams == 5

\* Optional[str]
NoText == [some |-> FALSE, text |-> <<>>]
Some(t) == [some |-> TRUE, text |-> t]
TextTruthy(o) == o.some /\ o.text # <<>>

RankFunctionInfos ==
    [ name : { <<"add">>, <<"unrelated">> },
      docstring : { NoText,
                    Some(<<"Add", " ", "two", " ", "numbers">>),
                    Some(<<"Add", " ", LongRun>>) },
      class_name : { NoText, Some(<<"Numbers">>) },
      file_path : { <<"src", "/", "calc.py">> },
      n_parameters : {0, 2, 6} ]

UserRequests ==
    { <<"add", " ", "two", " ", "numbers">>,
      <<"Numbers", " ", "calc.py", " ", " ", "add">> }

WordSet(t) == Range(Split(t))

OverlapIntersection(user_words, words) == Cardinality(user_words \cap words)
OverlapDifference(user_words, words) == Cardinality(user_words \ words)

\* len(user_words.intersection(words))
Overlap(user_words, words) == OverlapIntersection(user_words, words)

UserWords(request) == WordSet(LowerText(request))
NameWords(func) == WordSet(ReplaceChar(LowerText(func.name), "_", " "))
DocWords(func) == WordSet(LowerText(func.docstring.text))
ClassWords(func) == WordSet(ReplaceChar(LowerText(func.class_name.text), "_", " "))
FileWords(func) ==
    WordSet(ReplaceChar(ReplaceChar(LowerText(func.file_path), "/", " "), "_", " "))

\* calculate_relevance_score, times two
Score2(func, request) ==
    LET user_words == UserWords(request)
    IN    NameWeight2 * Overlap(user_words, NameWords(func))
        + (IF TextTruthy(func.docstring)
           THEN DocWeight2 * Overlap(user_words, DocWords(func)) ELSE 0)
        + (IF TextTruthy(func.class_name)
           THEN ClassWeight2 * Overlap(user_words, ClassWords(func)) ELSE 0)
        + FileWeight2 * Overlap(user_words, FileWords(func))
        + (IF TextTruthy(func.docstring) /\ TextLen(func.docstring.text) > DocBonusLength
           THEN DocBonus2 ELSE 0)
        + (IF MinBonusParams <= func.n_parameters /\ func.n_parameters <= MaxBonusParams
           THEN ParamBonus2 ELSE 0)

\* list.sort(key=lambda x: x[1], reverse=True) on the (func, score) pairs:
\* stable, the higher score first
RECURSIVE InsertDescending(_, _)
InsertDescending(sorted, pair) ==
    IF sorted = <<>> THEN <<pair>>
    ELSE IF Head(sorted).score >= pair.score
         THEN <<Head(sorted)>> \o InsertDescending(Tail(sorted), pair)
    ELSE <<pair>> \o sorted

RECURSIVE InsertAscending(_, _)
InsertAscending(sorted, pair) ==
    IF sorted = <<>> THEN <<pair>>
    ELSE IF Head(sorted).score <= pair.score
         THEN <<Head(sorted)>> \o InsertAscending(Tail(sorted), pair)
    ELSE <<pair>> \o sorted

InsertByScore(sorted, pair) == InsertDescending(sorted, pair)

RECURSIVE SortByScore(_)
SortByScore(pairs) ==
    IF pairs = <<>> THEN <<>>
    ELSE InsertByScore(SortByScore(SubSeq(pairs, 1, Len(pairs) - 1)), pairs[Len(pairs)])

\* The threshold of the returned comprehension: score >= 0
NotNegative(score) == score >= 0

OnlyPositive(score) == score > 0

KeepsScore(score) == NotNegative(score)

\* APIMatcher._rank_with_keywords
RankWithKeywords(fs, request) ==
    LET scored_functions ==
            [k \in DOMAIN fs |-> [func |-> fs[k], score |-> Score2(fs[k], request)]]
        sorted == SelectSeq(SortByScore(scored_functions), LAMBDA pair : KeepsScore(pair.score))
    IN  [k \in DOMAIN sorted |-> sorted[k].func]

\* The functions of the inventories that are ranked.
InventoryFunctionInfos == {func \in RankFunctionInfos : func.n_parameters <= MaxBonusParams}

NotRanked == [called |-> FALSE, functions |-> <<>>]
NotScored == [called |-> FALSE, edits |-> 0, before |-> 0, score2 |-> 0]

RankIdle ==
    /\ functions = <<>>
    /\ user_request = <<>>
    /\ ranked = NotRanked
    /\ candidate = CHOOSE func \in RankFunctionInfos : TRUE
    /\ relevance = NotScored

RankInit ==
    /\ functions = <<>>
    /\ user_request \in UserRequests
    /\ ranked = NotRanked
    /\ candidate = CHOOSE func \in RankFunctionInfos : TRUE
    /\ relevance = NotScored

\* One more function in the inventory that is to be ranked.
AddFunction ==
    /\ Len(functions) < MaxFunctions
    /\ \E func \in InventoryFunctionInfos : functions' = Append(functions, func)
    /\ ranked' = NotRanked
    /\ UNCHANGED <<user_request, candidate, relevance>>
    /\ UNCHANGED notRank

CallRankWithKeywords ==
    /\ ~ranked.called
    /\ ranked' = [called |-> TRUE, functions |-> RankWithKeywords(functions, user_request)]
    /\ UNCHANGED <<functions, user_request, candidate, relevance>>
    /\ UNCHANGED notRank

Occurrences(list, func) == Cardinality({k \in DOMAIN list : list[k] = func})

WithScore(list, score) ==
    SelectSeq(list, LAMBDA func : Score2(func, user_request) = score)

\* C25: keyword-mode ranking returns a permutation of its input (every
\* function as often as it was handed in, none dropped by the threshold), and
\* the functions of one score are in their input order.
C25_RankingIsStablePermutation ==
    ranked.called =>
        /\ Len(ranked.functions) = Len(functions)
        /\ \A func \in Range(functions) \cup Range(ranked.functions) :
              Occurrences(ranked.functions, func) = Occurrences(functions, func)
        /\ \A k \in DOMAIN functions :
              LET score == Score2(functions[k], user_request)
              IN  WithScore(ranked.functions, score) = WithScore(functions, score)

C25_Witness ==
    /\ ranked.called
    /\ Len(functions) = 2
    /\ functions[1] # functions[2]
    /\ Score2(functions[1], user_request) = Score2(functions[2], user_request)
    /\ ranked.functions = functions

\* A function with one more word in one of the four texts the score reads.
WithWord(func, field, w) ==
    CASE field = "name" -> [func EXCEPT !.name = @ \o <<"_">> \o w]
      [] field = "docstring" ->
            [func EXCEPT !.docstring =
                 IF @.some THEN Some(@.text \o <<" ">> \o w) ELSE Some(w)]
      [] field = "class_name" ->
            [func EXCEPT !.class_name =
                 IF @.some THEN Some(@.text \o <<"_">> \o w) ELSE Some(w)]
      [] field = "file_path" -> [func EXCEPT !.file_path = w \o <<"/">> \o @]

FieldWords(func, field) ==
    CASE field = "name" -> NameWords(func)
      [] field = "docstring" -> DocWords(func)
      [] field = "class_name" -> ClassWords(func)
      [] field = "file_path" -> FileWords(func)

MaxEdits == 2

ScoreInit ==
    /\ functions = <<>>
    /\ user_request \in UserRequests
    /\ ranked = NotRanked
    /\ candidate \in RankFunctionInfos
    /\ relevance = NotScored

\* calculate_relevance_score on the function as it stands
ScoreCandidate ==
    /\ ~relevance.called
    /\ relevance' = [relevance EXCEPT !.called = TRUE,
                                      !.before = Score2(candidate, user_request),
                                      !.score2 = Score2(candidate, user_request)]
    /\ UNCHANGED <<functions, user_request, ranked, candidate>>
    /\ UNCHANGED notRank

\* The function's name, docstring, class name or path gains one word of the
\* request that it did not hold, and the function is scored again.
AddOverlappingWord ==
    /\ relevance.called
    /\ relevance.edits < MaxEdits
    /\ \E field \in {"name", "docstring", "class_name", "file_path"} :
         \E w \in UserWords(user_request) \ FieldWords(candidate, field) :
            /\ candidate' = WithWord(candidate, field, w)
            /\ relevance' = [called |-> TRUE,
                             edits |-> relevance.edits + 1,
                             before |-> relevance.score2,
                             score2 |-> Score2(WithWord(candidate, field, w), user_request)]
    /\ UNCHANGED <<functions, user_request, ranked>>
    /\ UNCHANGED notRank

\* ---- claims about keyword ranking ----

\* C6: the keyword score never falls when one more word of the request is
\* added to a function's name, docstring, class name or file path.
C6_ScoreMonotone ==
    relevance.edits > 0 => relevance.score2 >= relevance.before

C6_Witness ==
    /\ relevance.edits = 2
    /\ relevance.score2 > relevance.before
    /\ TextLen(candidate.docstring.text) > DocBonusLength
    /\ candidate.class_name.some

AddFunctionInfo ==
    [name |-> <<"add">>, docstring |-> Some(<<"Add", " ", "two", " ", "numbers">>),
     class_name |-> NoText, file_path |-> <<"src", "/", "calc.py">>, n_parameters |-> 2]
UnrelatedFunctionInfo ==
    [name |-> <<"unrelated">>, docstring |-> NoText,
     class_name |-> NoText, file_path |-> <<"src", "/", "calc.py">>, n_parameters |-> 0]

\* C10: under keyword mode a function with a strictly greater score comes
\* before one with a smaller score; for "add two numbers", add(a, b) with the
\* docstring "Add two numbers" comes before the undocumented unrelated().
C10_HigherScoreFirst ==
    ranked.called =>
        LET score == [k \in DOMAIN functions |-> Score2(functions[k], user_request)]
            rscore == [p \in DOMAIN ranked.functions |->
                          Score2(ranked.functions[p], user_request)]
        IN  /\ \A f, g \in DOMAIN functions :
                  score[f] > score[g] =>
                      \E p, q \in DOMAIN ranked.functions :
                          /\ p < q
                          /\ ranked.functions[p] = functions[f]
                          /\ ranked.functions[q] = functions[g]
            /\ \A p, q \in DOMAIN ranked.functions : p < q => rscore[p] >= rscore[q]
            /\ (/\ user_request = <<"add", " ", "two", " ", "numbers">>
                /\ functions = <<UnrelatedFunctionInfo, AddFunctionInfo>>)
                  => ranked.functions = <<AddFunctionInfo, UnrelatedFunctionInfo>>

C10_Witness ==
    /\ ranked.called
    /\ user_request = <<"add", " ", "two", " ", "numbers">>
    /\ functions = <<UnrelatedFunctionInfo, AddFunctionInfo>>
    /\ ranked.functions[1] = AddFunctionInfo

(***************************************************************************)
(* models/tool.py                                                          *)
(***************************************************************************)
MaxParameters == 2

\* MCPToolParameter; default "None" is Python's None.
MCPToolParameters ==
    [ name : {"a", "b"},
      type : {"string", "integer"},
      description : {"a parameter"},
      required : BOOLEAN,
      default : {"None", "7"} ]

\* One turn of the loop of to_mcp_schema.
SchemaStepCode(acc, param) ==
    LET entry == [type |-> param.type,
                  description |-> param.description,
                  has_default |-> param.default # "None",
                  default |-> param.default]
    IN  [properties |->
             [n \in DOMAIN acc.properties \cup {param.name} |->
                  IF n = param.name THEN entry ELSE acc.properties[n]],
         required |->
             IF param.required THEN Append(acc.required, param.name) ELSE acc.required]

SchemaStepRequiredByDefault(acc, param) ==
    [SchemaStepCode(acc, param) EXCEPT
        !.required = IF param.default = "None"
                     THEN Append(acc.required, param.name) ELSE acc.required]

SchemaStep(acc, param) == SchemaStepCode(acc, param)

RECURSIVE SchemaLoop(_, _)
SchemaLoop(acc, params) ==
    IF params = <<>> THEN acc
    ELSE SchemaLoop(SchemaStep(acc, Head(params)), Tail(params))

\* MCPTool.to_mcp_schema
ToMcpSchema(t) ==
    LET acc == SchemaLoop([properties |-> <<>>, required |-> <<>>], t.parameters)
    IN  [called |-> TRUE,
         name |-> t.name,
         description |-> t.description,
         inputSchema |-> [type |-> "object",
                          properties |-> acc.properties,
                          required |-> acc.required]]

NoSchema ==
    [called |-> FALSE, name |-> "", description |-> "",
     inputSchema |-> [type |-> "object", properties |-> <<>>, required |-> <<>>]]

SchemaIdle ==
    /\ mcp_tool = [name |-> "tool", description |-> "a tool", parameters |-> <<>>]
    /\ schema = NoSchema

\* tool.parameters.append(MCPToolParameter(...)), as generate_tools builds a tool
AddParameter ==
    /\ Len(mcp_tool.parameters) < MaxParameters
    /\ \E param \in MCPToolParameters :
          mcp_tool' = [mcp_tool EXCEPT !.parameters = Append(@, param)]
    /\ schema' = NoSchema
    /\ UNCHANGED notSchema

CallToMcpSchema ==
    /\ ~schema.called
    /\ schema' = ToMcpSchema(mcp_tool)
    /\ UNCHANGED mcp_tool
    /\ UNCHANGED notSchema

\* ---- claims about the wire schema ----

\* C7: the names in inputSchema.required are exactly the names of the tool's
\* parameters marked required, and every parameter name is a key of properties.
C7_RequiredRoundTrip ==
    schema.called =>
        /\ Range(schema.inputSchema.required)
             = {mcp_tool.parameters[i].name :
                   i \in {j \in DOMAIN mcp_tool.parameters : mcp_tool.parameters[j].required}}
        /\ \A i \in DOMAIN mcp_tool.parameters :
              mcp_tool.parameters[i].name \in DOMAIN schema.inputSchema.properties

C7_Witness ==
    /\ schema.called
    /\ Len(mcp_tool.parameters) = 2
    /\ mcp_tool.parameters[1].required /\ mcp_tool.parameters[1].default # "None"
    /\ ~mcp_tool.parameters[2].required /\ mcp_tool.parameters[2].default = "None"
    /\ mcp_tool.parameters[1].name # mcp_tool.parameters[2].name
    /\ schema.inputSchema.required = <<mcp_tool.parameters[1].name>>

(***************************************************************************)
(* detect/openai.py: argparse extraction                                   *)
(*                                                                         *)
(* An add_argument call is held as what ArgparseVisitor looks at: its      *)
(* first positional argument and its help, type, action and nargs          *)
(* keywords.  A keyword cannot be repeated in a call (a syntax error).     *)
(***************************************************************************)
MaxCalls == 2
MaxKeywords == 2

Absent == [kind |-> "absent", value |-> <<>>]
Constant(v) == [kind |-> "constant", value |-> v]         \* ast.Constant, a str
OtherConstant == [kind |-> "other_constant", value |-> <<"5">>]  \* ast.Constant, no str
NameNode(id) == [kind |-> "name", value |-> id]           \* ast.Name
Expression == [kind |-> "expression", value |-> <<>>]     \* any other node

FirstArguments ==
    { Constant(<<"-", "-", "n", "a", "m", "e">>),
      Constant(<<"-", "-", "d", "-", "r">>),
      Constant(<<"-", "n">>),
      OtherConstant,
      Expression,
      Absent }

KeywordValues(kw) ==
    CASE kw = "help" -> { Constant(<<"User name">>), Expression }
      [] kw = "type" -> { NameNode(<<"int">>), NameNode(<<"float">>),
                          NameNode(<<"Path">>), Expression }
      [] kw = "action" -> { Constant(<<"store_true">>), Constant(<<"store_false">>) }
      [] kw = "nargs" -> { [kind |-> "constant_int", value |-> <<"2">>],
                           Constant(<<"2">>), Constant(<<"+">>) }

KeywordNames == {"help", "type", "action", "nargs"}

\* BaseDetector._map_python_type_to_json (detect/base.py)
MapPythonTypeToJson(python_type) ==
    CASE python_type = <<"str">> -> "string"
      [] python_type = <<"int">> -> "integer"
      [] python_type = <<"float">> -> "number"
      [] python_type = <<"bool">> -> "boolean"
      [] python_type = <<"list">> -> "array"
      [] OTHER -> "string"

\* ArgparseVisitor.visit_Call: the arg_info of one add_argument call, none
\* when the call has no positional argument or its first one is no constant.
VisitCall(call) ==
    IF call.first.kind \notin {"constant", "other_constant"} THEN <<>>
    ELSE <<[name |-> call.first.value,
            name_is_str |-> call.first.kind = "constant",
            help |-> IF call.help.kind = "constant" THEN call.help ELSE Absent,
            type |-> IF call.type.kind = "name" THEN call.type ELSE Absent,
            action |-> IF call.action.kind = "constant" THEN call.action ELSE Absent,
            nargs |-> IF call.nargs.kind \in {"constant", "constant_int"}
                      THEN call.nargs ELSE Absent]>>

Braces(name) == <<"{">> \o name \o <<"}">>

\* The body of the loop over visitor.arguments, for an argument whose name is
\* a string: the tools it gives (none, or one).
ArgumentToTools(arg) ==
    IF ~StartsWith(arg.name, <<"-", "-">>) THEN <<>>
    ELSE
      LET tool_name == ReplaceChar(SubSeq(arg.name, 3, Len(arg.name)), "-", "_")
          description == IF arg.help.kind = "absent"
                         THEN <<"Execute">> \o tool_name ELSE arg.help.value
          param_type == MapPythonTypeToJson(IF arg.type.kind = "absent"
                                            THEN <<"str">> ELSE arg.type.value)
          takes_value == ~(arg.action.kind = "constant"
                           /\ arg.action.value = <<"store_true">>)
          two == arg.nargs.kind = "constant_int" /\ arg.nargs.value = <<"2">>
          Param(suffix, text) ==
              [name |-> tool_name \o suffix, type |-> param_type,
               description |-> <<text>> \o tool_name \o <<"value">>]
      IN  <<[name |-> tool_name,
             description |-> description,
             args |-> IF ~takes_value THEN <<arg.name>>
                      ELSE IF two
                      THEN <<arg.name, Braces(tool_name \o <<"1">>),
                             Braces(tool_name \o <<"2">>)>>
                      ELSE <<arg.name, Braces(tool_name)>>,
             parameters |-> IF ~takes_value THEN <<>>
                            ELSE IF two
                            THEN <<Param(<<"1">>, "First"), Param(<<"2">>, "Second")>>
                            ELSE <<Param(<<>>, "The")>>]>>

\* OpenaiDetector._extract_argparse_tools: arg_name.startswith raises
\* AttributeError on a constant that is no str, and the exception leaves the
\* method.
ExtractArgparseTools(calls) ==
    LET arguments == Concat([i \in DOMAIN calls |-> VisitCall(calls[i])])
    IN  IF \E i \in DOMAIN arguments : ~arguments[i].name_is_str
        THEN [raised |-> TRUE, tools |-> <<>>]
        ELSE [raised |-> FALSE,
              tools |-> Concat([i \in DOMAIN arguments |-> ArgumentToTools(arguments[i])])]

\* OpenaiDetector._detect_cli_tools for one main file that reads and parses:
\* an exception of the extraction is printed as a warning and the file gives
\* no tools.
DetectCliTools(calls) ==
    LET r == ExtractArgparseTools(calls)
    IN  [called |-> TRUE, raised |-> r.raised,
         tools |-> IF r.raised THEN <<>> ELSE r.tools]

NoCliTools == [called |-> FALSE, raised |-> FALSE, tools |-> <<>>]

ArgparseIdle ==
    /\ add_argument_calls = <<>>
    /\ cli_tools = NoCliTools

KeywordCount(calls) ==
    Cardinality({<<i, kw>> \in (DOMAIN calls) \X KeywordNames : calls[i][kw].kind # "absent"})

\* The file's next add_argument call, without keywords yet.
WriteAddArgument ==
    /\ Len(add_argument_calls) < MaxCalls
    /\ \E first \in FirstArguments :
          add_argument_calls' =
              Append(add_argument_calls,
                     [first |-> first, help |-> Absent, type |-> Absent,
                      action |-> Absent, nargs |-> Absent])
    /\ cli_tools' = NoCliTools
    /\ UNCHANGED notArgparse

\* One more keyword in the last add_argument call.
WriteKeyword ==
    /\ add_argument_calls # <<>>
    /\ KeywordCount(add_argument_calls) < MaxKeywords
    /\ \E kw \in KeywordNames :
          /\ add_argument_calls[Len(add_argument_calls)][kw].kind = "absent"
          /\ \E v \in KeywordValues(kw) :
                add_argument_calls' =
                    [add_argument_calls EXCEPT ![Len(add_argument_calls)][kw] = v]
    /\ cli_tools' = NoCliTools
    /\ UNCHANGED notArgparse

CallDetectCliTools ==
    /\ ~cli_tools.called
    /\ cli_tools' = DetectCliTools(add_argument_calls)
    /\ UNCHANGED add_argument_calls
    /\ UNCHANGED notArgparse

\* ---- claims about argparse extraction ----

IsLongFlag(call) ==
    /\ call.first.kind = "constant"
    /\ Len(call.first.value) >= 2
    /\ call.first.value[1] = "-" /\ call.first.value[2] = "-"

\* The calls the claim is about: a literal long flag, no action='store_true',
\* nargs not 2.
TakesOneValue(call) ==
    /\ IsLongFlag(call)
    /\ call.action # Constant(<<"store_true">>)
    /\ call.nargs # [kind |-> "constant_int", value |-> <<"2">>]

\* The name x of the flag --x, dashes replaced by underscores.
FlagName(call) ==
    [i \in 1..(Len(call.first.value) - 2) |->
        IF call.first.value[i + 2] = "-" THEN "_" ELSE call.first.value[i + 2]]

DeclaredJsonType(call) ==
    IF call.type.kind # "name" THEN "string"
    ELSE CASE call.type.value = <<"int">> -> "integer"
           [] call.type.value = <<"float">> -> "number"
           [] call.type.value = <<"bool">> -> "boolean"
           [] call.type.value = <<"list">> -> "array"
           [] OTHER -> "string"

\* The tools of the long-flag calls come in the calls' order: the tool of
\* call i is at the position that counts the long-flag calls up to i.
ToolPosition(i) ==
    Cardinality({j \in 1..i : IsLongFlag(add_argument_calls[j])})

\* C8: every add_argument call with a literal long flag --x, without
\* action='store_true' and with nargs other than 2, yields exactly one tool,
\* named x, with args ['--x', '{x}'] and the one parameter x of the declared
\* type's JSON type ('string' without type=).
C8_LongFlagYieldsOneTool ==
    cli_tools.called =>
        /\ Len(cli_tools.tools)
             = Cardinality({j \in DOMAIN add_argument_calls :
                              IsLongFlag(add_argument_calls[j])})
        /\ \A i \in DOMAIN add_argument_calls :
              TakesOneValue(add_argument_calls[i]) =>
                  LET t == cli_tools.tools[ToolPosition(i)]
                      x == FlagName(add_argument_calls[i])
                  IN  /\ t.name = x
                      /\ t.args = <<add_argument_calls[i].first.value, <<"{">> \o x \o <<"}">>>>
                      /\ Len(t.parameters) = 1
                      /\ t.parameters[1].name = x
                      /\ t.parameters[1].type = DeclaredJsonType(add_argument_calls[i])

(***************************************************************************)
(* detect/openai.py: route extraction                                      *)
(*                                                                         *)
(* A route path is held as its segments: literal text, a Flask parameter   *)
(* <type:name> or <name> (type ""), or a placeholder {name}.  The two      *)
(* regular expressions over the path find the Flask parameters and the     *)
(* placeholders in their order; str.replace rewrites every occurrence.     *)
(***************************************************************************)
MaxSegments == 3
MaxQueryParams == 2

Literal(text) == [kind |-> "literal", type |-> "", name |-> text]
FlaskParam(type, name) == [kind |-> "flask", type |-> type, name |-> name]
Placeholder(name) == [kind |-> "placeholder", type |-> "", name |-> name]
QueryPart(name) == [kind |-> "query", type |-> "", name |-> name]

ParamNames == {"id", "q"}

Segments ==
    { Literal("/users/"),
      FlaskParam("int", "id"), FlaskParam("", "id"), FlaskParam("string", "id"),
      FlaskParam("float", "q"), FlaskParam("slug", "q"),
      Placeholder("id"), Placeholder("q") }

FuncNames == {"get_user", "search"}
Methods == {"GET", "POST"}

\* The segments of one kind, in the path's order (re.findall over the path).
FindAll(path, kind) == SelectSeq(path, LAMBDA seg : seg.kind = kind)

\* str.replace(old, new) for a whole segment.
Replace(path, old, new) ==
    [i \in DOMAIN path |-> IF path[i] = old THEN new ELSE path[i]]

\* The mapping of Flask converter names to JSON schema types.
FlaskTypeToJsonCode(param_type) ==
    CASE param_type = "int" -> "integer"
      [] param_type = "float" -> "number"
      [] param_type = "string" -> "string"
      [] param_type = "path" -> "string"
      [] param_type = "uuid" -> "string"
      [] OTHER -> "string"

FlaskTypeIntAsNumber(param_type) ==
    CASE param_type = "int" -> "number"
      [] param_type = "float" -> "number"
      [] OTHER -> "string"

FlaskTypeToJson(param_type) == FlaskTypeToJsonCode(param_type)

PathDescription(name) == [kind |-> "The parameter", name |-> name]
QueryDescription(name) == [kind |-> "Query parameter", name |-> name]

HasName(parameters, name) == \E i \in DOMAIN parameters : parameters[i].name = name

\* The loop over route_params: param_type is defaulted to "string" before the
\* replaced text is built, so the text is always the typed form.
RECURSIVE RouteParamsLoop(_, _)
RouteParamsLoop(route_params, acc) ==
    IF route_params = <<>> THEN acc
    ELSE LET param_name == Head(route_params).name
             param_type == IF Head(route_params).type = ""
                           THEN "string" ELSE Head(route_params).type
         IN  RouteParamsLoop(
                 Tail(route_params),
                 [parameters |-> Append(acc.parameters,
                                        [name |-> param_name,
                                         type |-> FlaskTypeToJson(param_type),
                                         description |-> PathDescription(param_name),
                                         required |-> "unset"]),
                  processed_route |-> Replace(acc.processed_route,
                                              FlaskParam(param_type, param_name),
                                              Placeholder(param_name))])

\* The loop over fastapi_params.
RECURSIVE FastapiParamsLoop(_, _)
FastapiParamsLoop(fastapi_params, parameters) ==
    IF fastapi_params = <<>> THEN parameters
    ELSE LET param_name == Head(fastapi_params).name
         IN  FastapiParamsLoop(
                 Tail(fastapi_params),
                 IF HasName(parameters, param_name) THEN parameters
                 ELSE Append(parameters,
                             [name |-> param_name, type |-> "integer",
                              description |-> PathDescription(param_name),
                              required |-> "unset"]))

\* The loop over query_params.
RECURSIVE QueryParamsLoop(_, _)
QueryParamsLoop(query_params, parameters) ==
    IF query_params = <<>> THEN parameters
    ELSE LET param == Head(query_params)
         IN  QueryParamsLoop(
                 Tail(query_params),
                 IF HasName(parameters, param) THEN parameters
                 ELSE Append(parameters,
                             [name |-> param, type |-> "string",
                              description |-> QueryDescription(param),
                              required |-> "False"]))

IsQueryParameter(param) == param.description.kind = "Query parameter"

\* '&'.join(query_parts)
RECURSIVE JoinQueryParts(_)
JoinQueryParts(names) ==
    IF names = <<>> THEN <<>>
    ELSE IF Len(names) = 1 THEN <<QueryPart(names[1])>>
    ELSE <<QueryPart(names[1]), Literal("&")>> \o JoinQueryParts(Tail(names))

\* OpenaiDetector._process_route.  body is what the function pattern and the
\* two query patterns find in content.
ProcessRoute(path, name, body, http_method) ==
    LET looped == RouteParamsLoop(FindAll(path, "flask"),
                                  [parameters |-> <<>>, processed_route |-> path])
        with_fastapi == FastapiParamsLoop(FindAll(path, "placeholder"),
                                          looped.parameters)
        parameters == IF body.func_match
                      THEN QueryParamsLoop(body.query_params, with_fastapi)
                      ELSE with_fastapi
        required == SelectSeq(parameters,
                              LAMBDA p : p.required # "False" /\ ~IsQueryParameter(p))
        query == SelectSeq(parameters, IsQueryParameter)
        query_names == [i \in DOMAIN query |-> query[i].name]
        first == IF query = <<>> THEN looped.processed_route
                 ELSE looped.processed_route \o <<Literal("?")>> \o JoinQueryParts(query_names)
    IN  [called |-> TRUE,
         name |-> name,
         description |-> [method |-> http_method, route |-> path],
         args |-> <<first>> \o [i \in DOMAIN required |-> <<Placeholder(required[i].name)>>],
         parameters |-> parameters]

NoWebTool ==
    [called |-> FALSE, name |-> "",
     description |-> [method |-> "", route |-> <<>>],
     args |-> <<>>, parameters |-> <<>>]

NoContent == [func_match |-> TRUE, query_params |-> <<>>]

RouteIdle ==
    /\ route = <<>>
    /\ func_name = "get_user"
    /\ method = "GET"
    /\ content = NoContent
    /\ web_tool = NoWebTool

RouteInit ==
    /\ route = <<>>
    /\ func_name \in FuncNames
    /\ method \in Methods
    /\ content \in [func_match : BOOLEAN, query_params : {<<>>}]
    /\ web_tool = NoWebTool

\* One more segment in the decorator's path.
WriteSegment ==
    /\ Len(route) < MaxSegments
    /\ \E seg \in Segments : route' = Append(route, seg)
    /\ web_tool' = NoWebTool
    /\ UNCHANGED <<func_name, method, content>>
    /\ UNCHANGED notRoute

\* One more query parameter read in the function's body.
WriteQueryParam ==
    /\ Len(content.query_params) < MaxQueryParams
    /\ \E q \in ParamNames :
          content' = [content EXCEPT !.query_params = Append(@, q)]
    /\ web_tool' = NoWebTool
    /\ UNCHANGED <<route, func_name, method>>
    /\ UNCHANGED notRoute

CallProcessRoute ==
    /\ route # <<>>
    /\ ~web_tool.called
    /\ web_tool' = ProcessRoute(route, func_name, content, method)
    /\ UNCHANGED <<route, func_name, method, content>>
    /\ UNCHANGED notRoute

\* ---- claims about route extraction ----

IsTyped(seg) == seg.kind = "flask" /\ seg.type # ""

\* The path the claim describes: each <type:name> replaced by {name}.
TypedReplaced(path) ==
    [i \in DOMAIN path |-> IF IsTyped(path[i]) THEN Placeholder(path[i].name) ELSE path[i]]

JsonTypeOf(type) ==
    CASE type = "int" -> "integer"
      [] type = "float" -> "number"
      [] OTHER -> "string"

\* The case the claim is about: a path with typed parameters, and no query
\* parameter found for the function.
TypedRouteNoQuery ==
    /\ web_tool.called
    /\ \E i \in DOMAIN route : IsTyped(route[i])
    /\ (~content.func_match \/ content.query_params = <<>>)

\* The tool is named after the function and its parameters are the path's
\* parameters, the Flask ones first in the path's order with the mapped type.
NamedAndTyped ==
    LET flask == FindAll(route, "flask")
    IN  /\ web_tool.name = func_name
        /\ Len(web_tool.parameters) >= Len(flask)
        /\ \A k \in DOMAIN flask :
              /\ web_tool.parameters[k].name = flask[k].name
              /\ web_tool.parameters[k].type
                   = JsonTypeOf(IF flask[k].type = "" THEN "string" ELSE flask[k].type)
        /\ {web_tool.parameters[k].name : k \in DOMAIN web_tool.parameters}
             = {route[i].name : i \in {j \in DOMAIN route : route[j].kind # "literal"}}

MaxElements == 2

Value(kind, keys, type, parameters, items) ==
    [kind |-> kind, keys |-> keys, type |-> type,
     parameters |-> parameters, items |-> items]

Scalar(kind) == Value(kind, {}, "", <<>>, <<>>)
Array(items) == Value("array", {}, "", <<>>, items)
\* A JSON object: its scalar keys, the value of its "type" key, and the value
\* of its "parameters" key when it has one (a sequence of none or one value).
Object(keys, type, parameters) == Value("object", keys, type, parameters, <<>>)

Token(t, keys, type) == [t |-> t, keys |-> keys, type |-> type]
Tok(t) == Token(t, {}, "")

ScalarKinds == {"number", "string", "null"}

RECURSIVE Serialize(_)
RECURSIVE SerializeItems(_)
SerializeItems(items) ==
    IF items = <<>> THEN <<>>
    ELSE IF Len(items) = 1 THEN Serialize(items[1])
    ELSE Serialize(items[1]) \o <<Tok(",")>> \o SerializeItems(Tail(items))

\* json text of a value, as the model writes it.
Serialize(value) ==
    CASE value.kind = "array" ->
             <<Tok("[")>> \o SerializeItems(value.items) \o <<Tok("]")>>
      [] value.kind = "object" ->
             <<Tok("{"), Token("members", value.keys, value.type)>>
             \o (IF value.parameters = <<>> THEN <<>>
                 ELSE <<Tok("parameters:")>> \o Serialize(value.parameters[1]))
             \o <<Tok("}")>>
      [] OTHER -> <<Tok(value.kind)>>

ParseFailed == [ok |-> FALSE, value |-> Scalar("null"), rest |-> <<>>]
Parsed(value, rest) == [ok |-> TRUE, value |-> value, rest |-> rest]

Drop(s, n) == SubSeq(s, n + 1, Len(s))

RECURSIVE ParseValue(_)
RECURSIVE ParseItems(_, _)
\* The elements of an array after its "[" or after a comma.
ParseItems(tokens, acc) ==
    LET r == ParseValue(tokens)
    IN  IF ~r.ok \/ r.rest = <<>> THEN ParseFailed
        ELSE IF Head(r.rest).t = "," THEN ParseItems(Tail(r.rest), Append(acc, r.value))
        ELSE IF Head(r.rest).t = "]" THEN Parsed(Array(Append(acc, r.value)), Tail(r.rest))
        ELSE ParseFailed

\* One JSON value at the head of the tokens.
ParseValue(tokens) ==
    IF tokens = <<>> THEN ParseFailed
    ELSE LET h == Head(tokens)
         IN  CASE h.t \in ScalarKinds -> Parsed(Scalar(h.t), Tail(tokens))
               [] h.t = "[" ->
                    IF Len(tokens) >= 2 /\ tokens[2].t = "]"
                    THEN Parsed(Array(<<>>), Drop(tokens, 2))
                    ELSE ParseItems(Tail(tokens), <<>>)
               [] h.t = "{" ->
                    IF Len(tokens) < 3 \/ tokens[2].t # "members" THEN ParseFailed
                    ELSE IF tokens[3].t = "}"
                    THEN Parsed(Object(tokens[2].keys, tokens[2].type, <<>>),
                                Drop(tokens, 3))
                    ELSE IF tokens[3].t = "parameters:"
                    THEN LET r == ParseValue(Drop(tokens, 3))
                         IN  IF r.ok /\ r.rest # <<>> /\ Head(r.rest).t = "}"
                             THEN Parsed(Object(tokens[2].keys, tokens[2].type,
                                                <<r.value>>),
                                         Tail(r.rest))
                             ELSE ParseFailed
                    ELSE ParseFailed
               [] OTHER -> ParseFailed

\* json.loads: the whole text is one value, else JSONDecodeError.
JsonLoads(text) ==
    LET r == ParseValue(text)
    IN  IF r.ok /\ r.rest = <<>> THEN [ok |-> TRUE, value |-> r.value]
        ELSE [ok |-> FALSE, value |-> Scalar("null")]

\* str.find and str.rfind for a bracket: an index from 0, -1 when absent.
Find(text, t) ==
    IF \E i \in DOMAIN text : text[i].t = t
    THEN (CHOOSE i \in DOMAIN text :
             text[i].t = t /\ \A j \in 1..(i - 1) : text[j].t # t) - 1
    ELSE -1

RFind(text, t) ==
    IF \E i \in DOMAIN text : text[i].t = t
    THEN (CHOOSE i \in DOMAIN text :
             text[i].t = t /\ \A j \in (i + 1)..Len(text) : text[j].t # t) - 1
    ELSE -1

\* text[start:end]
Slice(text, start, end) == SubSeq(text, start + 1, end)

HasKey(value, key) ==
    IF key = "parameters" THEN value.parameters # <<>> ELSE key \in value.keys

\* `field in x` for a field name: "true", "false", or "TypeError" for a value
\* that is no container.  The strings and lists of a response hold none of the
\* field names.
FieldIn(field, x) ==
    CASE x.kind = "object" -> IF HasKey(x, field) THEN "true" ELSE "false"
      [] x.kind \in {"array", "string"} -> "false"
      [] OTHER -> "TypeError"

\* all(field in x for field in fields), fields in the list's order.
RECURSIVE AllFieldsIn(_, _)
AllFieldsIn(fields, x) ==
    IF fields = <<>> THEN "true"
    ELSE LET first == FieldIn(Head(fields), x)
         IN  IF first = "true" THEN AllFieldsIn(Tail(fields), x) ELSE first

AllowedTypes == {"string", "number", "boolean", "array", "object"}

\* The loop over tool["parameters"] of _validate_tool_spec.
RECURSIVE ValidateParameters(_)
ValidateParameters(params) ==
    IF params = <<>> THEN "true"
    ELSE LET has == AllFieldsIn(<<"name", "type", "description", "required">>,
                                Head(params))
         IN  IF has # "true" THEN has
             ELSE IF Head(params).type \notin AllowedTypes THEN "false"
             ELSE ValidateParameters(Tail(params))

\* LLMClient._validate_tool_spec: "true", "false", or the exception it raises.
ValidateToolSpec(tool) ==
    LET has == AllFieldsIn(<<"function_name", "tool_name", "description",
                             "parameters">>, tool)
    IN  IF has # "true" THEN has
        ELSE IF tool.parameters[1].kind # "array" THEN "false"
        ELSE ValidateParameters(tool.parameters[1].items)

\* The validation loop of _parse_analysis_response: an exception ends it.
RECURSIVE ValidationLoop(_, _)
ValidationLoop(tools, validated_tools) ==
    IF tools = <<>> THEN [raised |-> FALSE, tools |-> validated_tools]
    ELSE LET v == ValidateToolSpec(Head(tools))
         IN  IF v = "TypeError" THEN [raised |-> TRUE, tools |-> <<>>]
             ELSE ValidationLoop(Tail(tools),
                                 IF v = "true" THEN Append(validated_tools, Head(tools))
                                 ELSE validated_tools)

Returned(by, tools) == [called |-> TRUE, by |-> by, raised |-> FALSE, tools |-> tools]
Escaped(by) == [called |-> TRUE, by |-> by, raised |-> TRUE, tools |-> <<>>]

\* LLMClient._parse_analysis_response: both except clauses return [].
ParseAnalysisResponseCaught(text) ==
    LET start_idx == Find(text, "[")
        end_idx == RFind(text, "]") + 1
    IN  IF start_idx = -1 \/ end_idx = 0 THEN Returned("llm", <<>>)
        ELSE LET decoded == JsonLoads(Slice(text, start_idx, end_idx))
             IN  IF ~decoded.ok THEN Returned("llm", <<>>)
                 ELSE LET loop == ValidationLoop(decoded.value.items, <<>>)
                      IN  IF loop.raised THEN Returned("llm", <<>>)
                          ELSE Returned("llm", loop.tools)

ParseAnalysisResponseUncaught(text) ==
    LET start_idx == Find(text, "[")
        end_idx == RFind(text, "]") + 1
    IN  IF start_idx = -1 \/ end_idx = 0 THEN Returned("llm", <<>>)
        ELSE LET decoded == JsonLoads(Slice(text, start_idx, end_idx))
             IN  IF ~decoded.ok THEN Escaped("llm")
                 ELSE LET loop == ValidationLoop(decoded.value.items, <<>>)
                      IN  IF loop.raised THEN Returned("llm", <<>>)
                          ELSE Returned("llm", loop.tools)

ParseAnalysisResponse(text) == ParseAnalysisResponseCaught(text)

\* bool(x) of a decoded value.
JsonTruthy(value) ==
    CASE value.kind = "null" -> FALSE
      [] value.kind = "array" -> value.items # <<>>
      [] value.kind = "object" -> value.keys # {} \/ value.parameters # <<>>
      [] OTHER -> TRUE

\* CamelDetector._agent_detect_tools from the agent's content on: the text
\* between the brackets when both are found, else all of it; a value that is
\* no list is wrapped; a tool is kept when it is a dict with name and
\* description.
AgentDetectTools(text) ==
    LET start_idx == Find(text, "[")
        end_idx == RFind(text, "]") + 1
        json_content == IF start_idx # -1 /\ end_idx # 0
                        THEN Slice(text, start_idx, end_idx) ELSE text
        decoded == JsonLoads(json_content)
        tools_data == IF decoded.value.kind = "array" THEN decoded.value.items
                      ELSE IF JsonTruthy(decoded.value) THEN <<decoded.value>>
                      ELSE <<>>
    IN  IF ~decoded.ok THEN Returned("camel", <<>>)
        ELSE Returned("camel",
                      SelectSeq(tools_data,
                                LAMBDA tool : /\ tool.kind = "object"
                                              /\ "name" \in tool.keys
                                              /\ "description" \in tool.keys))

NoAnalysis == [called |-> FALSE, by |-> "", raised |-> FALSE, tools |-> <<>>]

ToolKeys == {"function_name", "tool_name", "description"}
ParamKeys == {"name", "type", "description", "required"}

\* What a model puts in the array of its reply.
ResponseElements ==
    { Object(ToolKeys, "", <<Array(<<>>)>>),
      Object(ToolKeys, "", <<Array(<<Object(ParamKeys, "string", <<>>)>>)>>),
      Object(ToolKeys, "", <<Array(<<Object(ParamKeys, "integer", <<>>)>>)>>),
      Object(ToolKeys, "", <<Array(<<Object({"name", "type"}, "string", <<>>)>>)>>),
      Object(ToolKeys, "", <<Array(<<Scalar("number")>>)>>),
      Object(ToolKeys, "", <<Scalar("string")>>),
      Object({"function_name"}, "", <<>>),
      Object({"name", "description"}, "", <<>>),
      Scalar("number"),
      Scalar("string") }

LlmIdle ==
    /\ reply = <<>>
    /\ response = <<>>
    /\ analysis = NoAnalysis

\* The model writes one more element into the array of its reply.
WriteElement ==
    /\ Len(reply) < MaxElements
    /\ \E e \in ResponseElements :
          /\ reply' = Append(reply, e)
          /\ response' = Serialize(Array(reply'))
    /\ analysis' = NoAnalysis
    /\ UNCHANGED notLlm

\* The response is cut off one token earlier (max_tokens).
CutOff ==
    /\ response # <<>>
    /\ response[Len(response)].t # "prose"
    /\ response' = SubSeq(response, 1, Len(response) - 1)
    /\ analysis' = NoAnalysis
    /\ UNCHANGED reply
    /\ UNCHANGED notLlm

\* Prose before or after the JSON.
AddProse ==
    /\ \/ /\ IF response = <<>> THEN TRUE ELSE response[1].t # "prose"
          /\ response' = <<Tok("prose")>> \o response
       \/ /\ IF response = <<>> THEN TRUE ELSE response[Len(response)].t # "prose"
          /\ response' = Append(response, Tok("prose"))
    /\ analysis' = NoAnalysis
    /\ UNCHANGED reply
    /\ UNCHANGED notLlm

CallParseAnalysisResponse ==
    /\ ~analysis.called
    /\ analysis' = ParseAnalysisResponse(response)
    /\ UNCHANGED <<reply, response>>
    /\ UNCHANGED notLlm

CallAgentDetectTools ==
    /\ ~analysis.called
    /\ analysis' = AgentDetectTools(response)
    /\ UNCHANGED <<reply, response>>
    /\ UNCHANGED notLlm

\* ---- claims about response parsing ----

\* Opening brackets minus closing ones in text[from..to].
Depth(text, from, to) ==
    Cardinality({k \in from..to : text[k].t = "["})
    - Cardinality({k \in from..to : text[k].t = "]"})

\* The array the text opens is never closed: after the first "[" the depth
\* never comes back to zero, so the text has no "]" or only nested ones.
ClosingBracketMissing(text) ==
    /\ Find(text, "[") # -1
    /\ \A j \in (Find(text, "[") + 1)..Len(text) :
          Depth(text, Find(text, "[") + 1, j) > 0

\* C11: a response whose JSON array lacks its closing "]" (no "]" at all, or
\* only those of nested parameter arrays) gives an empty tool list and no
\* exception, in LLMClient._parse_analysis_response and in
\* CamelDetector._agent_detect_tools.
C11_MissingBracketGivesNoTools ==
    (analysis.called /\ ClosingBracketMissing(response)) =>
        (~analysis.raised /\ analysis.tools = <<>>)

C11_Witness ==
    /\ analysis.called
    /\ analysis.by = "llm"
    /\ ClosingBracketMissing(response)
    /\ RFind(response, "]") # -1
    /\ analysis.tools = <<>>

C11_WitnessCamel ==
    /\ analysis.called
    /\ analysis.by = "camel"
    /\ ClosingBracketMissing(response)
    /\ RFind(response, "]") = -1
    /\ analysis.tools = <<>>

\* A well-formed parameter: an object with name, type, description and
\* required, its type in the allowed enum.
WellFormedParameter(param) ==
    /\ param.kind = "object"
    /\ {"name", "type", "description", "required"} \subseteq param.keys
    /\ param.type \in {"string", "number", "boolean", "array", "object"}

\* A well-formed tool: an object with function_name, tool_name, description
\* and a list of well-formed parameters.
WellFormedTool(tool) ==
    /\ tool.kind = "object"
    /\ {"function_name", "tool_name", "description"} \subseteq tool.keys
    /\ tool.parameters # <<>>
    /\ tool.parameters[1].kind = "array"
    /\ \A i \in DOMAIN tool.parameters[1].items :
          WellFormedParameter(tool.parameters[1].items[i])

\* C12: LLMClient._parse_analysis_response never raises, every element it
\* returns is a well-formed tool, and from an array that mixes valid and
\* invalid elements exactly the valid ones are returned, in their order.
C12_ExactlyTheValidTools ==
    (analysis.called /\ analysis.by = "llm") =>
        /\ ~analysis.raised
        /\ \A i \in DOMAIN analysis.tools : WellFormedTool(analysis.tools[i])
        /\ response = Serialize(Array(reply)) =>
              analysis.tools = SelectSeq(reply, WellFormedTool)

ParamSpecTypes == {"string", "integer", "number", "boolean", "array", "object"}

\* An element with the four fields of a tool and a list of parameters that
\* each have their four fields: only the parameter types are left to judge.
CompleteTool(tool) ==
    /\ tool.kind = "object"
    /\ {"function_name", "tool_name", "description"} \subseteq tool.keys
    /\ tool.parameters # <<>>
    /\ tool.parameters[1].kind = "array"
    /\ \A i \in DOMAIN tool.parameters[1].items :
          /\ tool.parameters[1].items[i].kind = "object"
          /\ {"name", "type", "description", "required"}
                \subseteq tool.parameters[1].items[i].keys

TypesInEnum(tool) ==
    \A i \in DOMAIN tool.parameters[1].items :
        tool.parameters[1].items[i].type \in ParamSpecTypes

\* C28: of the complete tool specifications of a response, validation
\* accepts exactly those whose parameter types are all in the ParamSpec enum
\* {string, integer, number, boolean, array, object}; 'integer' is accepted.
C28_AcceptedTypesAreTheEnum ==
    (/\ analysis.called
     /\ analysis.by = "llm"
     /\ response = Serialize(Array(reply))
     /\ \A i \in DOMAIN reply : CompleteTool(reply[i])) =>
        analysis.tools = SelectSeq(reply, TypesInEnum)

\* C28, with the list the code tests against: 'integer' is rejected.
C28_AcceptedTypesLackInteger ==
    (/\ analysis.called
     /\ analysis.by = "llm"
     /\ response = Serialize(Array(reply))
     /\ \A i \in DOMAIN reply : CompleteTool(reply[i])) =>
        analysis.tools
            = SelectSeq(reply,
                        LAMBDA tool :
                            \A i \in DOMAIN tool.parameters[1].items :
                                tool.parameters[1].items[i].type
                                    \in ParamSpecTypes \ {"integer"})

(***************************************************************************)
(* core/semantic/api_matcher.py: generate_tools                            *)
(*                                                                         *)
(* Names are sequences of atoms, a "." being an atom of its own.  The      *)
(* specifications are what LLMClient.analyze_user_request returns: each    *)
(* passed _validate_tool_spec, so each has its four fields, but its        *)
(* function_name is whatever the model wrote (any JSON value).             *)
(***************************************************************************)
MaxAvailable == 2
MaxSpecs == 2

EndsWith(s, suffix) ==
    Len(s) >= Len(suffix) /\ SubSeq(s, Len(s) - Len(suffix) + 1, Len(s)) = suffix

AvailableFunctionInfos ==
    [name : {"add", "sub"}, class_name : {"", "Calc", "Other"}]

\* FunctionInfo.qualified_name (models/function.py)
QualifiedName(func) ==
    IF func.class_name # "" THEN <<func.class_name, ".", func.name>>
    ELSE <<func.name>>

\* The function_name of a specification: a str, or a JSON list (unhashable).
SpecFunctionNames ==
    { [kind |-> "str", text |-> <<"add">>],
      [kind |-> "str", text |-> <<"sub">>],
      [kind |-> "str", text |-> <<"Calc", ".", "add">>],
      [kind |-> "str", text |-> <<"Other", ".", "sub">>],
      [kind |-> "str", text |-> <<"calc", ".", "Calc", ".", "add">>],
      [kind |-> "str", text |-> <<"missing">>],
      [kind |-> "list", text |-> <<"add">>] }

\* function_lookup = {f.qualified_name: f for f in functions}: the keys in
\* the order of their first insertion, each with the last function under it.
RECURSIVE LookupKeys(_, _)
LookupKeys(funcs, keys) ==
    IF funcs = <<>> THEN keys
    ELSE LookupKeys(Tail(funcs),
                    IF \E i \in DOMAIN keys : keys[i] = QualifiedName(Head(funcs))
                    THEN keys ELSE Append(keys, QualifiedName(Head(funcs))))

LookupGet(funcs, key) ==
    LET hits == SelectSeq(funcs, LAMBDA f : QualifiedName(f) = key)
    IN  IF hits = <<>> THEN <<>> ELSE <<hits[Len(hits)]>>

\* function_lookup.values()
LookupValues(funcs) ==
    LET keys == LookupKeys(funcs, <<>>)
    IN  [i \in DOMAIN keys |-> LookupGet(funcs, keys[i])[1]]

\* The function _create_mcp_tool attaches: none or one.  A function_name that
\* cannot be hashed raises TypeError in function_lookup.get; the handler
\* returns None.
ResolveFunction(spec, funcs) ==
    IF spec.function_name.kind # "str" THEN <<>>
    ELSE LET function_name == spec.function_name.text
             direct == LookupGet(funcs, function_name)
             others == SelectSeq(LookupValues(funcs),
                                 LAMBDA func :
                                     \/ <<func.name>> = function_name
                                     \/ EndsWith(QualifiedName(func),
                                                 <<".">> \o function_name))
         IN  IF direct # <<>> THEN direct
             ELSE IF others # <<>> THEN <<others[1]>>
             ELSE <<>>

\* APIMatcher._create_mcp_tool: none or one MCPTool.
CreateMcpTool(spec, funcs) ==
    LET function_info == ResolveFunction(spec, funcs)
    IN  IF function_info = <<>> THEN <<>>
        ELSE <<[name |-> spec.tool_name, function_info |-> function_info[1]]>>

\* The loop over tool_specs of generate_tools.
RECURSIVE GenerateLoopAll(_, _)
GenerateLoopAll(specs, funcs) ==
    IF specs = <<>> THEN <<>>
    ELSE CreateMcpTool(Head(specs), funcs) \o GenerateLoopAll(Tail(specs), funcs)

RECURSIVE GenerateLoopStopAtMiss(_, _)
GenerateLoopStopAtMiss(specs, funcs) ==
    IF specs = <<>> THEN <<>>
    ELSE IF CreateMcpTool(Head(specs), funcs) = <<>> THEN <<>>
    ELSE CreateMcpTool(Head(specs), funcs) \o GenerateLoopStopAtMiss(Tail(specs), funcs)

GenerateLoop(specs, funcs) == GenerateLoopAll(specs, funcs)

\* APIMatcher.generate_tools, specs being the LLM analysis of the request.
GenerateTools(funcs, specs) ==
    IF funcs = <<>> THEN <<>>
    ELSE IF specs = <<>> THEN <<>>
    ELSE GenerateLoop(specs, funcs)

NotGenerated == [called |-> FALSE, tools |-> <<>>]

GenerateIdle ==
    /\ available_functions = <<>>
    /\ tool_specs = <<>>
    /\ mcp_tools = NotGenerated

\* One more function in the inventory; line_number is its place.
AddAvailableFunction ==
    /\ Len(available_functions) < MaxAvailable
    /\ \E f \in AvailableFunctionInfos :
          available_functions' =
              Append(available_functions,
                     [name |-> f.name, class_name |-> f.class_name,
                      line_number |-> Len(available_functions) + 1])
    /\ mcp_tools' = NotGenerated
    /\ UNCHANGED tool_specs
    /\ UNCHANGED notGenerate

\* One more specification in the LLM's analysis; tool_name numbers them.
AddToolSpec ==
    /\ Len(tool_specs) < MaxSpecs
    /\ \E fn \in SpecFunctionNames :
          tool_specs' = Append(tool_specs,
                               [function_name |-> fn,
                                tool_name |-> Len(tool_specs) + 1])
    /\ mcp_tools' = NotGenerated
    /\ UNCHANGED available_functions
    /\ UNCHANGED notGenerate

CallGenerateTools ==
    /\ ~mcp_tools.called
    /\ mcp_tools' = [called |-> TRUE,
                     tools |-> GenerateTools(available_functions, tool_specs)]
    /\ UNCHANGED <<available_functions, tool_specs>>
    /\ UNCHANGED notGenerate

\* ---- claims about generate_tools ----

\* The function's qualified name is the wanted name or ends with "." and the
\* wanted name, or its simple name is the wanted name.
NameMatches(func, spec) ==
    /\ spec.function_name.kind = "str"
    /\ LET wanted == spec.function_name.text
           qualified == IF func.class_name = "" THEN <<func.name>>
                        ELSE <<func.class_name, ".", func.name>>
       IN  \/ qualified = wanted
           \/ /\ Len(qualified) > Len(wanted)
              /\ qualified[Len(qualified) - Len(wanted)] = "."
              /\ \A k \in 1..Len(wanted) :
                    qualified[Len(qualified) - Len(wanted) + k] = wanted[k]
           \/ <<func.name>> = wanted

Resolvable(spec) ==
    \E i \in DOMAIN available_functions : NameMatches(available_functions[i], spec)

\* C13: every tool of generate_tools references a function of the input list
\* whose qualified name is the specification's function_name or ends with
\* "." + function_name, or whose simple name is it; a specification matching
\* no input function gives no tool and the remaining ones are still
\* processed (the tools are those of the resolvable specifications, in
\* order).
C13_ToolsReferenceInputFunctions ==
    mcp_tools.called =>
        LET resolvable == SelectSeq(tool_specs, Resolvable)
        IN  /\ Len(mcp_tools.tools) = Len(resolvable)
            /\ \A k \in DOMAIN mcp_tools.tools :
                  /\ mcp_tools.tools[k].name = resolvable[k].tool_name
                  /\ \E i \in DOMAIN available_functions :
                        available_functions[i] = mcp_tools.tools[k].function_info
                  /\ NameMatches(mcp_tools.tools[k].function_info, resolvable[k])

\* An unresolvable specification before a resolvable one: one tool, the
\* second specification's.
C13_Witness ==
    /\ mcp_tools.called
    /\ Len(tool_specs) = 2
    /\ ~Resolvable(tool_specs[1])
    /\ Resolvable(tool_specs[2])
    /\ Len(mcp_tools.tools) = 1
    /\ mcp_tools.tools[1].name = 2
    /\ mcp_tools.tools[1].function_info.class_name = "Calc"
    /\ tool_specs[2].function_name.text = <<"add">>

(***************************************************************************)
(* core/semantic/api_matcher.py: filter_functions                          *)
(*                                                                         *)
(* A name is its characters; a docstring is None or its characters; a file *)
(* path is atoms cut where the patterns of the filters can occur, so that  *)
(* `pattern in str(path)` is the search for a run of atoms.                *)
(***************************************************************************)
MaxUnfiltered == 2

DefaultMinDocstringLength == 10
DefaultMaxParameters == 10

Chars(n) == [i \in 1..n |-> "x"]

\* key not in filters
NoFilter == [given |-> FALSE, value |-> <<>>]
Given(v) == [given |-> TRUE, value |-> <<v>>]

\* filters.get(key, default)
FiltersGet(fs, key, default) ==
    IF fs[key].given THEN fs[key].value[1] ELSE default

BaselineFunction ==
    [name |-> <<"f">>, docstring |-> Some(Chars(10)), parameters |-> Chars(0),
     file_path |-> <<"src/", "calc", ".py">>]

FilterFunctionInfos ==
    { BaselineFunction }
    \cup { [BaselineFunction EXCEPT !.name = n] :
              n \in { <<"_", "g">>, <<"_", "_", "h", "_", "_">>, <<"_", "_", "k">> } }
    \cup { [BaselineFunction EXCEPT !.docstring = d] :
              d \in { NoText, Some(<<>>), Some(Chars(9)) } }
    \cup { [BaselineFunction EXCEPT !.parameters = Chars(11)] }
    \cup { [BaselineFunction EXCEPT !.file_path = <<"la", "test", ".py">>] }

FilterDictionaries ==
    [ include_private : {NoFilter, Given(TRUE), Given(FALSE)},
      min_docstring_length : {NoFilter, Given(0), Given(9)},
      max_parameters : {NoFilter, Given(0)},
      include_files : {NoFilter, Given(<<>>), Given(<< <<"calc">> >>)},
      exclude_files : {NoFilter, Given(<<>>), Given(<< <<"src/">> >>)} ]

NoFilters ==
    [include_private |-> NoFilter, min_docstring_length |-> NoFilter,
     max_parameters |-> NoFilter, include_files |-> NoFilter,
     exclude_files |-> NoFilter]

\* pattern in str(path)
Contains(text, pattern) ==
    \E i \in 1..(Len(text) - Len(pattern) + 1) :
        SubSeq(text, i, i + Len(pattern) - 1) = pattern

AnyPatternIn(patterns, text) ==
    \E k \in DOMAIN patterns : Contains(text, patterns[k])

\* not f.name.startswith("_") or f.name.startswith("__")
NotSingleUnderscore(f) ==
    ~StartsWith(f.name, <<"_">>) \/ StartsWith(f.name, <<"_", "_">>)

NoLeadingUnderscore(f) == ~StartsWith(f.name, <<"_">>)

KeepsPublic(f) == NotSingleUnderscore(f)

\* [f for f in filtered if keep(f)]
Comprehension(list, keep(_)) == SelectSeq(list, keep)

\* APIMatcher.filter_functions: the list returned, and the caller's list
\* after the call (the filters work on a copy).
FilterFunctions(funcs, fs) ==
    LET copy == funcs
        public == IF FiltersGet(fs, "include_private", FALSE) = FALSE
                  THEN Comprehension(copy, KeepsPublic) ELSE copy
        min_doc_length == FiltersGet(fs, "min_docstring_length",
                                     DefaultMinDocstringLength)
        documented == IF min_doc_length > 0
                      THEN Comprehension(public,
                               LAMBDA f : /\ TextTruthy(f.docstring)
                                          /\ Len(f.docstring.text) >= min_doc_length)
                      ELSE public
        max_params == FiltersGet(fs, "max_parameters", DefaultMaxParameters)
        small == Comprehension(documented,
                               LAMBDA f : Len(f.parameters) <= max_params)
        include_patterns == FiltersGet(fs, "include_files", <<>>)
        included == IF include_patterns # <<>>
                    THEN Comprehension(small,
                             LAMBDA f : AnyPatternIn(include_patterns, f.file_path))
                    ELSE small
        exclude_patterns == FiltersGet(fs, "exclude_files",
                                       << <<"test">>, <<"__pycache__">>, <<".git">> >>)
    IN  [called |-> TRUE,
         filtered |-> Comprehension(included,
                          LAMBDA f : ~AnyPatternIn(exclude_patterns, f.file_path)),
         functions |-> funcs]

NotFiltered == [called |-> FALSE, filtered |-> <<>>, functions |-> <<>>]

FilterIdle ==
    /\ unfiltered = <<>>
    /\ filters = NoFilters
    /\ filtered = NotFiltered

FilterInit ==
    /\ unfiltered = <<>>
    /\ filters \in FilterDictionaries
    /\ filtered = NotFiltered

AddUnfiltered ==
    /\ Len(unfiltered) < MaxUnfiltered
    /\ ~filtered.called
    /\ \E f \in FilterFunctionInfos : unfiltered' = Append(unfiltered, f)
    /\ UNCHANGED <<filters, filtered>>
    /\ UNCHANGED notFilter

\* The call hands in `unfiltered`; what the caller's list holds afterwards is
\* recorded in the result.
CallFilterFunctions ==
    /\ ~filtered.called
    /\ filtered' = FilterFunctions(unfiltered, filters)
    /\ UNCHANGED <<unfiltered, filters>>
    /\ UNCHANGED notFilter

\* ---- claims about filter_functions ----

IsPrivateName(name) ==
    /\ Len(name) >= 1 /\ name[1] = "_"
    /\ ~(Len(name) >= 2 /\ name[2] = "_")

Occurs(pattern, path) ==
    \E i \in 1..Len(path) :
        /\ i + Len(pattern) - 1 <= Len(path)
        /\ \A k \in 1..Len(pattern) : path[i + k - 1] = pattern[k]

\* The predicates the filter dictionary enables, with the defaults of the
\* absent keys: private names out unless include_private, a docstring of the
\* minimum length when that is positive, at most max_parameters parameters,
\* a path holding one of include_files when given, and none of exclude_files.
SatisfiesFilters(f) ==
    LET private_ok == IF filters.include_private = Given(TRUE) THEN TRUE
                      ELSE ~IsPrivateName(f.name)
        min == IF filters.min_docstring_length.given
               THEN filters.min_docstring_length.value[1] ELSE 10
        doc_ok == min <= 0 \/ (f.docstring.some /\ f.docstring.text # <<>>
                               /\ Len(f.docstring.text) >= min)
        max == IF filters.max_parameters.given
               THEN filters.max_parameters.value[1] ELSE 10
        inc == IF filters.include_files.given
               THEN filters.include_files.value[1] ELSE <<>>
        exc == IF filters.exclude_files.given THEN filters.exclude_files.value[1]
               ELSE << <<"test">>, <<"__pycache__">>, <<".git">> >>
    IN  /\ private_ok
        /\ doc_ok
        /\ Len(f.parameters) <= max
        /\ (inc = <<>> \/ \E k \in DOMAIN inc : Occurs(inc[k], f.file_path))
        /\ ~\E k \in DOMAIN exc : Occurs(exc[k], f.file_path)

\* C14: filter_functions returns the subsequence of its input that holds
\* exactly the functions satisfying all enabled predicates, in the input's
\* order, and the input list is as it was.
C14_FilterIsSubsequence ==
    filtered.called =>
        /\ filtered.filtered = SelectSeq(unfiltered, SatisfiesFilters)
        /\ filtered.functions = unfiltered

C14_Witness ==
    /\ filtered.called
    /\ Len(unfiltered) = 2
    /\ ~SatisfiesFilters(unfiltered[1])
    /\ SatisfiesFilters(unfiltered[2])
    /\ filtered.filtered = <<unfiltered[2]>>
    /\ filters # NoFilters

(***************************************************************************)
(* detect/openai.py: interactive command patterns                          *)
(*                                                                         *)
(* The text of a file is held as what the two regular expressions match in *)
(* it, in the text's order: a comparison `.lower() == 'word'` or a prefix  *)
(* test `.lower().startswith('word '`, in an if or elif.                   *)
(***************************************************************************)
MaxComparisons == 3

CommandWords == {"hello", "echo", "quit", "exit"}
Comparisons == [kind : {"equality", "prefix"}, word : CommandWords]

\* re.findall of one of the patterns: the words, in the text's order.
FindWords(text, kind) ==
    LET hits == SelectSeq(text, LAMBDA c : c.kind = kind)
    IN  [i \in DOMAIN hits |-> hits[i].word]

\* commands[match] = info: a new key goes last, a known key keeps its place.
DictSet(dict, key, info) ==
    IF \E i \in DOMAIN dict : dict[i].name = key
    THEN [i \in DOMAIN dict |-> IF dict[i].name = key THEN info ELSE dict[i]]
    ELSE Append(dict, info)

SimpleCommand(word) ==
    [name |-> word, description |-> <<"Execute", word, "command">>,
     args |-> <<>>, parameters |-> <<>>]

MessageCommand(word) ==
    [name |-> word, description |-> <<"Execute", word, "command with message">>,
     args |-> <<"{message}">>,
     parameters |-> <<[name |-> "message", type |-> "string"]>>]

\* The loop over the matches of simple_pattern.
RECURSIVE SimpleLoop(_, _)
SimpleLoop(matches, commands) ==
    IF matches = <<>> THEN commands
    ELSE SimpleLoop(Tail(matches),
                    IF Head(matches) \notin {"quit", "exit"}
                    THEN DictSet(commands, Head(matches), SimpleCommand(Head(matches)))
                    ELSE commands)

\* The loop over the matches of param_pattern.
RECURSIVE ParamLoop(_, _)
ParamLoop(matches, commands) ==
    IF matches = <<>> THEN commands
    ELSE ParamLoop(Tail(matches),
                   DictSet(commands, Head(matches), MessageCommand(Head(matches))))

\* OpenaiDetector._extract_command_patterns: the dict, in insertion order.
ExtractCommandPatterns(text) ==
    ParamLoop(FindWords(text, "prefix"),
              SimpleLoop(FindWords(text, "equality"), <<>>))

\* The tools _detect_interactive_commands makes of one file's commands.
CommandTools(text) ==
    LET commands == ExtractCommandPatterns(text)
    IN  [i \in DOMAIN commands |->
            [name |-> commands[i].name,
             description |-> commands[i].description,
             args |-> <<commands[i].name>> \o commands[i].args,
             parameters |-> commands[i].parameters]]

NoCommands == [called |-> FALSE, tools |-> <<>>]

CommandsIdle ==
    /\ comparisons = <<>>
    /\ command_tools = NoCommands

WriteComparison ==
    /\ Len(comparisons) < MaxComparisons
    /\ \E c \in Comparisons : comparisons' = Append(comparisons, c)
    /\ command_tools' = NoCommands
    /\ UNCHANGED notCommands

CallExtractCommandPatterns ==
    /\ ~command_tools.called
    /\ command_tools' = [called |-> TRUE, tools |-> CommandTools(comparisons)]
    /\ UNCHANGED comparisons
    /\ UNCHANGED notCommands

\* ---- claims about interactive commands ----

ToolsNamed(word) ==
    {i \in DOMAIN command_tools.tools : command_tools.tools[i].name = word}

\* C20: interactive-command extraction never emits a tool named quit or
\* exit, for an equality or a prefix comparison; an equality comparison gives
\* a command without parameters and a prefix comparison a command with the
\* one parameter message.
C20_NoTerminationCommands ==
    command_tools.called =>
        /\ ToolsNamed("quit") = {} /\ ToolsNamed("exit") = {}
        /\ \A k \in DOMAIN comparisons :
              comparisons[k].word \notin {"quit", "exit"} =>
                  \E i \in ToolsNamed(comparisons[k].word) :
                      IF comparisons[k].kind = "equality"
                      THEN command_tools.tools[i].parameters = <<>>
                      ELSE /\ Len(command_tools.tools[i].parameters) = 1
                           /\ command_tools.tools[i].parameters[1].name = "message"

(***************************************************************************)
(* core/analysis/python_parser.py: _extract_parameters on any signature    *)
(***************************************************************************)
MaxSignature == 3

ParameterKinds ==
    {"identifier", "typed_parameter", "default_parameter",
     "typed_default_parameter", "list_splat_pattern"}
ParameterNames == {"self", "cls", "a"}

NotExtracted == [called |-> FALSE, parameters |-> <<>>]

SignatureIdle ==
    /\ signature = <<>>
    /\ extracted = NotExtracted

\* One more child of the parameters node.
WriteParameter ==
    /\ Len(signature) < MaxSignature
    /\ \E kind \in ParameterKinds, name \in ParameterNames :
          signature' = Append(signature, ParamNode(kind, name))
    /\ extracted' = NotExtracted
    /\ UNCHANGED notSignature

CallExtractParameters ==
    /\ ~extracted.called
    /\ extracted' = [called |-> TRUE, parameters |-> ExtractParameters(signature)]
    /\ UNCHANGED signature
    /\ UNCHANGED notSignature

\* ---- claims about the parameters of a FunctionInfo ----

\* C19: no parameter of a FunctionInfo is named self or cls, whether the
\* signature gives it plain, typed, defaulted or typed and defaulted.
C19_NoSelfOrCls ==
    extracted.called =>
        \A i \in DOMAIN extracted.parameters :
            extracted.parameters[i].name \notin {"self", "cls"}

\* A signature with cls typed and defaulted, and another parameter kept.
C19_Witness ==
    /\ extracted.called
    /\ \E i \in DOMAIN signature :
          signature[i] = ParamNode("typed_default_parameter", "cls")
    /\ \E i \in DOMAIN signature :
          signature[i].name = "self" /\ signature[i].kind = "default_parameter"
    /\ Len(extracted.parameters) = 1
    /\ extracted.parameters[1].name = "a"

(***************************************************************************)
(* detect/base.py and detect/openai.py: detect_project                     *)
(*                                                                         *)
(* A project is a directory that exists or not, with its top-level files   *)
(* in the order glob lists them.  A file has a name (atoms, cut where the  *)
(* code searches it), may be unreadable (open or read raises), and has a   *)
(* text: the words the pattern searches look for, and what the four        *)
(* extractors' parsers and regular expressions find in it.                 *)
(***************************************************************************)
MaxFiles == 2

ProjectPath == <<"proj">>

\* str(project_path / name)
PathJoin(path, name) == path \o <<"/">> \o name

FileNames ==
    { <<"app", ".py">>, <<"util", ".py">>, <<"do", "main", ".py">>,
      <<"cli", ".py">>, <<"requirements", ".txt">> }

EmptyText ==
    [words |-> <<>>, calls |-> <<>>, routes |-> <<>>, defs |-> <<>>,
     comparisons |-> <<>>]

NameCall ==
    [first |-> Constant(<<"-", "-", "n", "a", "m", "e">>), help |-> Absent,
     type |-> Absent, action |-> Absent, nargs |-> Absent]

UsersRoute ==
    [family |-> "route",
     route |-> <<Literal("/users/"), FlaskParam("int", "id")>>,
     func_name |-> "get_user"]

ItemsRoute ==
    [family |-> "post", route |-> <<Literal("/items")>>, func_name |-> "add_item"]

Def(name, args) == [name |-> name, args |-> args]

FileTexts ==
    { EmptyText,
      [EmptyText EXCEPT !.words = <<"import", "argparse">>,
                        !.calls = <<NameCall>>,
                        !.defs = <<Def(<<"main">>, <<>>)>>],
      [EmptyText EXCEPT !.words = <<"from", "Flask">>,
                        !.routes = <<ItemsRoute, UsersRoute>>,
                        !.defs = <<Def(<<"get_user">>, <<"id">>)>>],
      [EmptyText EXCEPT !.words = <<"def">>,
                        !.defs = <<Def(<<"_", "helper">>, <<"x">>),
                                   Def(<<"run">>, <<"self", "cls">>)>>],
      [EmptyText EXCEPT !.words = <<"lower">>,
                        !.comparisons = <<[kind |-> "equality", word |-> "hello"]>>],
      [EmptyText EXCEPT !.words = <<"add_argument", "flask">>,
                        !.calls = <<NameCall>>,
                        !.routes = <<UsersRoute>>,
                        !.defs = <<Def(<<"run">>, <<>>)>>,
                        !.comparisons = <<[kind |-> "prefix", word |-> "echo"]>>] }

MixedText ==
    CHOOSE t \in FileTexts : t.calls # <<>> /\ t.routes # <<>>

\* The files a directory can hold: any text when readable, and an unreadable
\* file (its bytes are the mixed text's).
FileEntries ==
    [name : FileNames, readable : {TRUE}, text : FileTexts]
    \cup [name : FileNames, readable : {FALSE}, text : {MixedText}]

CliPatterns ==
    {"argparse", "click", "typer", "if __name__ == \"__main__\"",
     "ArgumentParser", "add_argument"}

WebIndicators ==
    << <<"app", ".py">>, <<"main", ".py">>, <<"server", ".py">>,
       <<"wsgi", ".py">>, <<"asgi", ".py">>, <<"requirements", ".txt">>,
       <<"Pipfile">>, <<"pyproject", ".toml">> >>

WebFrameworks ==
    {"flask", "django", "fastapi", "tornado", "bottle", "aiohttp", "sanic", "quart"}

\* project_path.glob("*.py")
PythonFiles(entries) ==
    SelectSeq(entries, LAMBDA file : EndsWith(file.name, <<".py">>))

\* BaseDetector._has_cli_patterns: a file that cannot be read is passed over.
HasCliPatterns(python_files) ==
    \E i \in DOMAIN python_files :
        /\ python_files[i].readable
        /\ \E pattern \in CliPatterns : pattern \in Range(python_files[i].text.words)

\* BaseDetector._has_web_patterns
HasWebPatterns(entries) ==
    \E k \in DOMAIN WebIndicators :
        \E i \in DOMAIN entries :
            /\ entries[i].name = WebIndicators[k]
            /\ entries[i].readable
            /\ \E framework \in WebFrameworks :
                  framework \in Range(LowerText(entries[i].text.words))

ClassifyCliFirst(entries) ==
    IF HasCliPatterns(PythonFiles(entries)) THEN "cli"
    ELSE IF HasWebPatterns(entries) THEN "web"
    ELSE "library"

ClassifyWebFirst(entries) ==
    IF HasWebPatterns(entries) THEN "web"
    ELSE IF HasCliPatterns(PythonFiles(entries)) THEN "cli"
    ELSE "library"

\* The if/elif/else of _extract_project_info that sets project_type.
Classify(entries) == ClassifyCliFirst(entries)

\* BaseDetector._extract_project_info: the fields the detection reads.
ExtractProjectInfo(entries) ==
    LET python_files == PythonFiles(entries)
    IN  [main_files |-> [i \in DOMAIN python_files |-> python_files[i].name],
         project_type |-> Classify(entries)]

\* The first main file whose name ends in .py and holds main, cli or
\* __main__, else the first main file, else none.
ChooseMainFile(main_files) ==
    LET named == SelectSeq(main_files,
                           LAMBDA file_name :
                               /\ EndsWith(file_name, <<".py">>)
                               /\ \/ Contains(file_name, <<"main">>)
                                  \/ Contains(file_name, <<"cli">>)
                                  \/ Contains(file_name, <<"__", "main", "__">>))
    IN  IF named # <<>> THEN <<named[1]>>
        ELSE IF main_files # <<>> THEN <<main_files[1]>>
        ELSE <<>>

ChooseFirstMainFile(main_files) ==
    IF main_files # <<>> THEN <<main_files[1]>> ELSE <<>>

MainFile(main_files) == ChooseMainFile(main_files)

Commandline(arg) ==
    [type |-> "commandline",
     config |-> [command |-> "python3", args |-> <<arg>>, cwd |-> ".",
                 base_url |-> "", timeout |-> 0]]

HttpBaseUrl == "http://localhost:8000"
HttpTimeout == 30

\* BaseDetector._generate_backend_config
GenerateBackendConfig(project_path, project_info) ==
    IF project_info.project_type = "cli"
    THEN LET main_file == MainFile(project_info.main_files)
         IN  Commandline(IF main_file # <<>>
                         THEN PathJoin(project_path, main_file[1])
                         ELSE project_path)
    ELSE IF project_info.project_type = "web"
    THEN [type |-> "http",
          config |-> [command |-> "", args |-> <<>>, cwd |-> "",
                      base_url |-> HttpBaseUrl, timeout |-> HttpTimeout]]
    ELSE Commandline(project_path)

\* The file a main-file name stands for.
FileNamed(entries, name) ==
    entries[CHOOSE i \in DOMAIN entries : entries[i].name = name]

Found(by, file, tools) ==
    [k \in DOMAIN tools |-> [by |-> by, file |-> file, k |-> k, spec |-> tools[k]]]

\* For every main file, in order, what one extractor finds in it; a file that
\* cannot be read gives a warning and nothing.
PerMainFile(entries, main_files, by, extract(_)) ==
    Concat([i \in DOMAIN main_files |->
               LET file == FileNamed(entries, main_files[i])
               IN  IF file.readable
                   THEN Found(by, main_files[i], extract(file.text))
                   ELSE <<>>])

\* OpenaiDetector._detect_cli_tools
ProjectCliTools(entries, main_files) ==
    PerMainFile(entries, main_files, "argparse",
                LAMBDA text : DetectCliTools(text.calls).tools)

\* method.upper() of the decorator's name.
HttpMethod(family) ==
    CASE family = "get" -> "GET"
      [] family = "post" -> "POST"
      [] family = "put" -> "PUT"
      [] family = "delete" -> "DELETE"
      [] family = "patch" -> "PATCH"

\* The routes of one file: the @app.route ones as GET, then the
\* @app.get/post/... ones with their method.
FileWebTools(text) ==
    LET flask == SelectSeq(text.routes, LAMBDA r : r.family = "route")
        fastapi == SelectSeq(text.routes, LAMBDA r : r.family # "route")
    IN  [i \in DOMAIN flask |->
            ProcessRoute(flask[i].route, flask[i].func_name, NoContent, "GET")]
        \o [i \in DOMAIN fastapi |->
               ProcessRoute(fastapi[i].route, fastapi[i].func_name, NoContent,
                            HttpMethod(fastapi[i].family))]

\* OpenaiDetector._detect_web_tools
ProjectWebTools(entries, main_files) ==
    PerMainFile(entries, main_files, "route", FileWebTools)

\* The public functions of one file, self left out of the parameters.
FileGenericTools(text) ==
    LET public == SelectSeq(text.defs, LAMBDA d : ~StartsWith(d.name, <<"_">>))
    IN  [i \in DOMAIN public |->
            LET names == SelectSeq(public[i].args, LAMBDA a : a # "self")
                parameters == [k \in DOMAIN names |->
                                  [name |-> names[k], type |-> "string"]]
            IN  [name |-> public[i].name,
                 args |-> <<public[i].name>>
                          \o [k \in DOMAIN parameters |->
                                 <<"{", parameters[k].name, "}">>],
                 parameters |-> parameters]]

\* OpenaiDetector._detect_generic_tools
ProjectGenericTools(entries, main_files) ==
    PerMainFile(entries,
                SelectSeq(main_files, LAMBDA n : EndsWith(n, <<".py">>)),
                "generic", FileGenericTools)

\* OpenaiDetector._detect_interactive_commands
ProjectInteractiveCommands(entries, main_files) ==
    PerMainFile(entries,
                SelectSeq(main_files, LAMBDA n : EndsWith(n, <<".py">>)),
                "interactive", LAMBDA text : CommandTools(text.comparisons))

\* The extractor the project type selects.
ByProjectType(entries, project_info) ==
    IF project_info.project_type = "cli"
    THEN ProjectCliTools(entries, project_info.main_files)
    ELSE IF project_info.project_type = "web"
    THEN ProjectWebTools(entries, project_info.main_files)
    ELSE ProjectGenericTools(entries, project_info.main_files)

InteractiveOnly(entries, project_info) == <<>>

TypeExtractor(entries, project_info) == ByProjectType(entries, project_info)

\* What the LLM enhancement can come to: the tools as they are (the call or
\* the decoding fails) or the list the model answers with.
LlmAnswers ==
    { <<>>, <<[by |-> "llm", file |-> <<>>, k |-> 1, spec |-> [name |-> <<"llm">>]]>> }

\* OpenaiDetector._detect_tools: the possible results.
HeuristicTools(entries, project_info) ==
    TypeExtractor(entries, project_info)
    \o ProjectInteractiveCommands(entries, project_info.main_files)

DetectToolsResults(entries, project_info, client) ==
    LET tools == HeuristicTools(entries, project_info)
    IN  IF client /\ tools # <<>> THEN {tools} \cup LlmAnswers ELSE {tools}

NotConfigured ==
    [called |-> FALSE, op |-> "", raised |-> "", invoked |-> <<>>,
     project_info |-> [main_files |-> <<>>, project_type |-> "unknown"],
     backend |-> Commandline(<<>>), tools |-> <<>>]

\* BaseDetector.detect_project for a path that exists: the three steps.
Configure(entries, tools) ==
    LET project_info == ExtractProjectInfo(entries)
    IN  [called |-> TRUE, op |-> "detect_project", raised |-> "",
         invoked |-> <<"_extract_project_info", "_detect_tools",
                       "_generate_backend_config">>,
         project_info |-> project_info,
         backend |-> GenerateBackendConfig(ProjectPath, project_info),
         tools |-> tools]

Refused ==
    [NotConfigured EXCEPT !.called = TRUE, !.op = "detect_project",
                          !.raised = "ValueError"]

\* BaseDetector.detect_project with the existence test.
DetectProjectChecked(exists, entries, tools) ==
    IF ~exists THEN Refused ELSE Configure(entries, tools)

DetectProjectUnchecked(exists, entries, tools) == Configure(entries, tools)

DetectProject(exists, entries, tools) == DetectProjectChecked(exists, entries, tools)

ProjectIdle ==
    /\ project = [exists |-> FALSE, entries |-> <<>>]
    /\ openai_client = FALSE
    /\ config = NotConfigured

ProjectInit ==
    /\ project = [exists |-> FALSE, entries |-> <<>>]
    /\ openai_client \in BOOLEAN
    /\ config = NotConfigured

MakeDirectory ==
    /\ ~project.exists
    /\ project' = [project EXCEPT !.exists = TRUE]
    /\ config' = NotConfigured
    /\ UNCHANGED openai_client
    /\ UNCHANGED notProject

\* One more top-level file, listed after the others.
CreateFile ==
    /\ project.exists
    /\ Len(project.entries) < MaxFiles
    /\ \E file \in FileEntries :
          /\ \A i \in DOMAIN project.entries : project.entries[i].name # file.name
          /\ project' = [project EXCEPT !.entries = Append(@, file)]
    /\ config' = NotConfigured
    /\ UNCHANGED openai_client
    /\ UNCHANGED notProject

\* OpenaiDetector.detect_project(project_path)
CallDetectProject ==
    /\ ~config.called
    /\ \E tools \in DetectToolsResults(project.entries,
                                       ExtractProjectInfo(project.entries),
                                       openai_client) :
          config' = DetectProject(project.exists, project.entries, tools)
    /\ UNCHANGED <<project, openai_client>>
    /\ UNCHANGED notProject

ProjectTypes == {"cli", "web", "library", "unknown"}

\* _generate_backend_config(project_path, project_info) on its own, for the
\* project's main files and any project type.
CallGenerateBackendConfig ==
    /\ ~config.called
    /\ \E project_type \in ProjectTypes :
          LET project_info ==
                  [ExtractProjectInfo(project.entries) EXCEPT !.project_type = project_type]
          IN  config' = [NotConfigured EXCEPT
                            !.called = TRUE,
                            !.op = "_generate_backend_config",
                            !.invoked = <<"_generate_backend_config">>,
                            !.project_info = project_info,
                            !.backend = GenerateBackendConfig(ProjectPath, project_info)]
    /\ UNCHANGED <<project, openai_client>>
    /\ UNCHANGED notProject

Detected == config.called /\ config.op = "detect_project"

\* C15: detect_project on a path that does not exist raises the path error
\* to its caller, and none of project-info extraction, tool detection and
\* backend-config generation has been invoked.
C15_MissingPathRaisesFirst ==
    (Detected /\ ~project.exists) =>
        /\ config.raised = "ValueError"
        /\ config.invoked = <<>>
        /\ config.tools = <<>>

C15_Witness ==
    /\ Detected
    /\ ~project.exists
    /\ config.raised = "ValueError"

\* A top-level .py file whose text could be read and holds a CLI pattern.
CliPatternFound ==
    \E i \in DOMAIN project.entries :
        LET file == project.entries[i]
        IN  /\ file.name[Len(file.name)] = ".py"
            /\ file.readable
            /\ Range(file.text.words) \cap CliPatterns # {}

\* A conventionally named file whose text could be read and names a web
\* framework, in any case.
WebMarkerFound ==
    \E i \in DOMAIN project.entries :
        LET file == project.entries[i]
        IN  /\ file.name \in Range(WebIndicators)
            /\ file.readable
            /\ \E w \in Range(file.text.words) : Lower(w) \in WebFrameworks

NamesEntryPoint(file_name) ==
    \E i \in DOMAIN file_name : file_name[i] \in {"main", "cli"}

\* The main file the claim names: the first whose name holds main, cli or
\* __main__, else the first.
EntryFile(main_files) ==
    IF \E i \in DOMAIN main_files : NamesEntryPoint(main_files[i])
    THEN main_files[CHOOSE i \in DOMAIN main_files :
                        /\ NamesEntryPoint(main_files[i])
                        /\ \A j \in 1..(i - 1) : ~NamesEntryPoint(main_files[j])]
    ELSE main_files[1]

\* C17: the backend of a cli project with main files is a commandline one
\* running python3 in "." with one argument, the path of the first main file
\* whose name holds main, cli or __main__, else of the first main file; the
\* backend of a web project is an http one with a base_url and a timeout; the
\* backend of any other project type is a commandline one whose one argument
\* is the project root.
C17_BackendFollowsProjectType ==
    (config.called /\ config.raised = "") =>
        LET project_type == config.project_info.project_type
            main_files == config.project_info.main_files
            backend == config.backend
        IN  /\ (project_type = "cli" /\ main_files # <<>>) =>
                  /\ backend.type = "commandline"
                  /\ backend.config.command = "python3"
                  /\ backend.config.cwd = "."
                  /\ backend.config.args = <<ProjectPath \o <<"/">> \o EntryFile(main_files)>>
            /\ project_type = "web" =>
                  /\ backend.type = "http"
                  /\ backend.config.base_url = "http://localhost:8000"
                  /\ backend.config.timeout = HttpTimeout
            /\ project_type \notin {"cli", "web"} =>
                  /\ backend.type = "commandline"
                  /\ backend.config.command = "python3"
                  /\ backend.config.cwd = "."
                  /\ backend.config.args = <<ProjectPath>>

C17_Witness ==
    /\ Detected
    /\ config.raised = ""
    /\ config.project_info.project_type = "cli"
    /\ Len(config.project_info.main_files) = 2
    /\ ~NamesEntryPoint(config.project_info.main_files[1])
    /\ NamesEntryPoint(config.project_info.main_files[2])
    /\ config.backend.config.args
         = <<ProjectPath \o <<"/">> \o config.project_info.main_files[2]>>

\* What one sub-extractor finds in the project's main files.
ExtractorOutput(by) ==
    LET main_files == config.project_info.main_files
    IN  CASE by = "argparse" -> ProjectCliTools(project.entries, main_files)
          [] by = "route" -> ProjectWebTools(project.entries, main_files)
          [] by = "generic" -> ProjectGenericTools(project.entries, main_files)
          [] by = "interactive" -> ProjectInteractiveCommands(project.entries, main_files)

ExtractorOf(project_type) ==
    CASE project_type = "cli" -> "argparse"
      [] project_type = "web" -> "route"
      [] OTHER -> "generic"

HeuristicOnly == Detected /\ config.raised = "" /\ ~openai_client

\* C18 as stated: for every project type the heuristic strategy returns the
\* outputs of all four sub-extractors, concatenated.
C18_AllFourExtractorsRun ==
    HeuristicOnly =>
        config.tools = ExtractorOutput("argparse") \o ExtractorOutput("route")
                       \o ExtractorOutput("generic") \o ExtractorOutput("interactive")

\* C18 amended: without an OpenAI client the strategy returns the output of
\* the one sub-extractor the project type selects (argument-parser for cli,
\* route for web, generic function otherwise) followed by the output of the
\* interactive-command extractor, concatenated without deduplication.
C18_TypeExtractorThenInteractive ==
    HeuristicOnly =>
        config.tools = ExtractorOutput(ExtractorOf(config.project_info.project_type))
                       \o ExtractorOutput("interactive")

C18_Witness ==
    /\ HeuristicOnly
    /\ config.project_info.project_type = "cli"
    /\ ExtractorOutput("route") # <<>>
    /\ ExtractorOutput("generic") # <<>>
    /\ \E i, j \in DOMAIN config.tools :
          /\ i < j
          /\ config.tools[i].by = config.tools[j].by
          /\ config.tools[i].spec = config.tools[j].spec
    /\ \E i \in DOMAIN config.tools : config.tools[i].by = "interactive"

(***************************************************************************)
(* detect/base.py _extract_dependencies and core/analysis/detector.py      *)
(* analyze_repository: the dependency list                                 *)
(*                                                                         *)
(* A line of requirements.txt, and a line inside the dependencies list of  *)
(* pyproject.toml, is a sequence of tokens: a package name, a version      *)
(* specifier and a version, "#" and a comment, a quotation mark, a comma.  *)
(* A file that is absent reads as one without lines.                       *)
(***************************************************************************)
MaxDependencyLines == 2

PackageNames == {"requests", "flask"}

Quote == "\""

RequirementLines ==
    {<<n>> : n \in PackageNames}
    \cup {<<n, ">=", "2">> : n \in PackageNames}
    \cup {<<"#", "comment">>, <<>>}

ManifestLines ==
    {<<Quote, n, Quote, ",">> : n \in PackageNames}
    \cup {<<Quote, n, ">=", "2", Quote, ",">> : n \in PackageNames}
    \cup {<<Quote, n, Quote>> : n \in PackageNames}

\* The install_requires strings setup.py can hold.
SetupRequires == {<<>>, << <<"requests">> >>, << <<"flask", ">=", "2">> >>}

RECURSIVE LStrip(_, _)
\* str.lstrip(chars) and str.rstrip(chars), then str.strip(chars)
LStrip(line, chars) ==
    IF line # <<>> /\ Head(line) \in chars THEN LStrip(Tail(line), chars) ELSE line

RECURSIVE RStrip(_, _)
RStrip(line, chars) ==
    IF line # <<>> /\ line[Len(line)] \in chars
    THEN RStrip(SubSeq(line, 1, Len(line) - 1), chars)
    ELSE line

Strip(line, chars) == RStrip(LStrip(line, chars), chars)

RECURSIVE BeforeSpecifier(_)
\* re.split(r"[>=<!=]", line)[0] and re.sub(r"[><=!~].*", "", dep): the
\* tokens before the first version specifier.
BeforeSpecifier(line) ==
    IF line = <<>> \/ Head(line) \in {">=", "==", "<=", "!=", "~="}
    THEN <<>>
    ELSE <<Head(line)>> \o BeforeSpecifier(Tail(line))

IsComment(line) == line # <<>> /\ Head(line) = "#"

\* _extract_dependencies: the requirements.txt loop.
BaseRequirements(lines) ==
    LET kept == SelectSeq(lines, LAMBDA line : line # <<>> /\ ~IsComment(line))
    IN  [i \in DOMAIN kept |-> BeforeSpecifier(kept[i])]

\* _extract_dependencies: the pyproject.toml loop over the lines between the
\* brackets of dependencies = [...].
BaseManifest(lines) ==
    LET stripped == [i \in DOMAIN lines |->
                        Strip(Strip(lines[i], {Quote}), {","})]
        kept == SelectSeq(stripped, LAMBDA line : line # <<>> /\ ~IsComment(line))
    IN  [i \in DOMAIN kept |-> BeforeSpecifier(kept[i])]

\* BaseDetector._extract_dependencies
ExtractDependencies(requirements, manifest) ==
    BaseRequirements(requirements) \o BaseManifest(manifest)

\* DependencyDetector._clean_dependency_spec; <<>> stands for None.
CleanDependencySpec(dep) ==
    IF dep = <<>> \/ IsComment(dep) THEN <<>> ELSE BeforeSpecifier(dep)

\* DependencyDetector._clean_dependency_specs
CleanDependencySpecs(deps) ==
    SelectSeq([i \in DOMAIN deps |-> CleanDependencySpec(deps[i])],
              LAMBDA dep : dep # <<>>)

\* toml.load: the strings of project.dependencies, quotes and commas gone.
TomlDependencies(lines) ==
    [i \in DOMAIN lines |->
        SelectSeq(lines[i], LAMBDA token : token \notin {Quote, ","})]

\* DependencyDetector._parse_pyproject_toml
ParsePyprojectToml(manifest) == CleanDependencySpecs(TomlDependencies(manifest))

\* DependencyDetector._parse_requirements_txt
ParseRequirementsTxt(requirements) ==
    CleanDependencySpecs(
        SelectSeq(requirements,
                  LAMBDA line : line # <<>> /\ ~IsComment(line) /\ Head(line) # "-"))

\* analyze_repository before the duplicates are removed.
CollectedDependencies(requirements, manifest, setup) ==
    ParsePyprojectToml(manifest) \o ParseRequirementsTxt(requirements)
    \o CleanDependencySpecs(setup)

\* list(set(dependencies)): the lists it can give, one per order.
ListOfSet(list) ==
    LET set == Range(list)
        n == Cardinality(set)
    IN  {s \in [1..n -> set] : \A i, j \in 1..n : i # j => s[i] # s[j]}

RemoveDuplicates(list) == ListOfSet(list)

\* DependencyDetector.analyze_repository: the dependencies it can return.
AnalyzeRepository(requirements, manifest, setup) ==
    RemoveDuplicates(CollectedDependencies(requirements, manifest, setup))

NoDependencies == [called |-> FALSE, by |-> "", list |-> <<>>]

DependenciesIdle ==
    /\ requirements_txt = <<>>
    /\ pyproject_toml = <<>>
    /\ dependencies = NoDependencies

WriteRequirement ==
    /\ Len(requirements_txt) < MaxDependencyLines
    /\ \E line \in RequirementLines : requirements_txt' = Append(requirements_txt, line)
    /\ dependencies' = NoDependencies
    /\ UNCHANGED pyproject_toml
    /\ UNCHANGED notDependencies

WriteManifestDependency ==
    /\ Len(pyproject_toml) < MaxDependencyLines
    /\ \E line \in ManifestLines : pyproject_toml' = Append(pyproject_toml, line)
    /\ dependencies' = NoDependencies
    /\ UNCHANGED requirements_txt
    /\ UNCHANGED notDependencies

\* BaseDetector._extract_dependencies(project_path)
CallExtractDependencies ==
    /\ ~dependencies.called
    /\ dependencies' = [called |-> TRUE, by |-> "BaseDetector",
                        list |-> ExtractDependencies(requirements_txt, pyproject_toml)]
    /\ UNCHANGED <<requirements_txt, pyproject_toml>>
    /\ UNCHANGED notDependencies

\* DependencyDetector.analyze_repository(repo_path)
CallAnalyzeRepository ==
    /\ ~dependencies.called
    /\ \E setup \in SetupRequires :
          \E list \in AnalyzeRepository(requirements_txt, pyproject_toml, setup) :
              dependencies' = [called |-> TRUE, by |-> "DependencyDetector",
                               list |-> list]
    /\ UNCHANGED <<requirements_txt, pyproject_toml>>
    /\ UNCHANGED notDependencies

NoDuplicates(list) ==
    \A i, j \in DOMAIN list : i # j => list[i] # list[j]

DeclaredInBoth(name) ==
    /\ \E i \in DOMAIN requirements_txt :
          requirements_txt[i] # <<>> /\ Head(requirements_txt[i]) = name
    /\ \E i \in DOMAIN pyproject_toml : pyproject_toml[i][2] = name

\* C21: the dependency list project inspection produces holds each package
\* name at most once, whether BaseDetector._extract_dependencies or
\* DependencyDetector.analyze_repository built it.
C21_EachPackageOnce ==
    dependencies.called => NoDuplicates(dependencies.list)

\* C21, the half that holds: the list analyze_repository returns holds each
\* package name at most once, also for a package declared in both files.
C21_RepositoryEachPackageOnce ==
    (dependencies.called /\ dependencies.by = "DependencyDetector") =>
        /\ NoDuplicates(dependencies.list)
        /\ \A name \in PackageNames :
              DeclaredInBoth(name) => <<name>> \in Range(dependencies.list)

C21_RepositoryWitness ==
    /\ dependencies.called
    /\ dependencies.by = "DependencyDetector"
    /\ DeclaredInBoth("requests")
    /\ Len(dependencies.list) = 2

(***************************************************************************)
(* detect/base.py _extract_project_info: the project description           *)
(*                                                                         *)
(* A README line is blank, a title (starts with #), a badge (holds [![),   *)
(* a link (starts with http) or other text, and is so many characters      *)
(* long once stripped.                                                     *)
(***************************************************************************)
MaxReadmeLines == 3
SubstantialLength == 20
EnoughLength == 100

ReadmeLine(kind, length) == [kind |-> kind, len |-> length]

ReadmeLines ==
    { ReadmeLine("blank", 0), ReadmeLine("title", 7), ReadmeLine("badge", 40),
      ReadmeLine("link", 30), ReadmeLine("text", 20), ReadmeLine("text", 21),
      ReadmeLine("text", 101) }

RECURSIVE JoinedLength(_)
\* len(" ".join(description_lines))
JoinedLength(lines) ==
    IF lines = <<>> THEN 0
    ELSE IF Len(lines) = 1 THEN lines[1].len
    ELSE Head(lines).len + 1 + JoinedLength(Tail(lines))

\* A description: one of the two fixed texts, or README lines joined by " ".
DefaultDescription == [text |-> "API for {name}", lines |-> <<>>]
AProject == [text |-> "A project", lines |-> <<>>]
Joined(lines) == [text |-> "", lines |-> lines]

RECURSIVE DescriptionLoop(_, _, _)
\* The for loop of _extract_description_from_readme: description_lines.
DescriptionLoop(lines, found_title, description_lines) ==
    IF lines = <<>> THEN description_lines
    ELSE LET line == Head(lines)
         IN  IF line.kind = "blank"
             THEN DescriptionLoop(Tail(lines), found_title, description_lines)
             ELSE IF line.kind = "title"
             THEN DescriptionLoop(Tail(lines), TRUE, description_lines)
             ELSE IF line.kind \in {"badge", "link"}
             THEN DescriptionLoop(Tail(lines), found_title, description_lines)
             ELSE IF found_title /\ line.len > SubstantialLength
             THEN LET appended == Append(description_lines, line)
                  IN  IF JoinedLength(appended) > EnoughLength
                      THEN appended
                      ELSE DescriptionLoop(Tail(lines), found_title, appended)
             ELSE DescriptionLoop(Tail(lines), found_title, description_lines)

\* BaseDetector._extract_description_from_readme
ExtractDescriptionFromReadme(readme_content) ==
    LET description_lines == DescriptionLoop(readme_content, FALSE, <<>>)
    IN  IF description_lines # <<>> THEN Joined(description_lines) ELSE AProject

\* _extract_project_info: description.
ExtractDescription(file) ==
    IF file.exists /\ file.readable
    THEN ExtractDescriptionFromReadme(file.lines)
    ELSE DefaultDescription

NoReadme == [exists |-> FALSE, readable |-> FALSE, lines |-> <<>>]

NotDescribed == [called |-> FALSE, value |-> DefaultDescription]

ReadmeIdle ==
    /\ readme = NoReadme
    /\ project_description = NotDescribed

CreateReadme ==
    /\ ~readme.exists
    /\ \E readable \in BOOLEAN :
          readme' = [exists |-> TRUE, readable |-> readable, lines |-> <<>>]
    /\ project_description' = NotDescribed
    /\ UNCHANGED notReadme

WriteReadmeLine ==
    /\ readme.exists
    /\ Len(readme.lines) < MaxReadmeLines
    /\ \E line \in ReadmeLines :
          readme' = [readme EXCEPT !.lines = Append(@, line)]
    /\ project_description' = NotDescribed
    /\ UNCHANGED notReadme

\* _extract_project_info(project_path): the description it gives.
CallExtractDescription ==
    /\ ~project_description.called
    /\ project_description' = [called |-> TRUE, value |-> ExtractDescription(readme)]
    /\ UNCHANGED readme
    /\ UNCHANGED notReadme

\* A paragraph the claim counts: text of more than 20 characters, no title
\* and no badge, after the first heading.
Substantial(i) ==
    /\ readme.lines[i].kind = "text"
    /\ readme.lines[i].len > SubstantialLength
    /\ \E j \in 1..(i - 1) : readme.lines[j].kind = "title"

FirstSubstantial ==
    CHOOSE i \in DOMAIN readme.lines :
        Substantial(i) /\ \A j \in 1..(i - 1) : ~Substantial(j)

\* C22: the description is that of the first substantial paragraph of a
\* README that was found and has one, and 'API for {name}' otherwise: also
\* for a README with no such paragraph.
C22_DescriptionOrDefault ==
    project_description.called =>
        IF readme.exists /\ readme.readable
           /\ \E i \in DOMAIN readme.lines : Substantial(i)
        THEN project_description.value = [text |-> "", lines |-> <<readme.lines[FirstSubstantial]>>]
        ELSE project_description.value = [text |-> "API for {name}", lines |-> <<>>]

\* C22, the README without a substantial paragraph alone.
C22_NoParagraphLeavesDefault ==
    (/\ project_description.called
     /\ readme.exists
     /\ readme.readable
     /\ \A i \in DOMAIN readme.lines : ~Substantial(i)) =>
        project_description.value = [text |-> "API for {name}", lines |-> <<>>]

(***************************************************************************)
(* cli.py _analyze_repository and _generate_tools: from the parsed file to *)
(* the functions the LLM prompt lists                                      *)
(***************************************************************************)
MaxRepositoryNodes == 2
PromptLimit == 50
CliMaxParameters == 8

PipelineFilePath == <<"src", "/", "calc.py">>

\* The fields of a parsed FunctionInfo that the filter and the ranking read
\* (the parsed definitions carry no docstring).
AsFunctionInfo(p) ==
    [name |-> p.name,
     line_number |-> p.line_number,
     docstring |-> NoText,
     class_name |-> IF p.class_name = NoClass THEN NoText ELSE Some(p.class_name),
     file_path |-> PipelineFilePath,
     parameters |-> p.parameters,
     n_parameters |-> Len(p.parameters)]

\* _analyze_repository: all_functions of the one Python file.
AllFunctions(file) ==
    LET functions_ == ParseFile(file)
    IN  [k \in DOMAIN functions_ |-> AsFunctionInfo(functions_[k])]

\* The filter dictionary _generate_tools passes.
CliFilters ==
    [NoFilters EXCEPT !.include_private = Given(FALSE),
                      !.min_docstring_length = Given(0),
                      !.max_parameters = Given(CliMaxParameters)]

Take(list, n) == SubSeq(list, 1, IF Len(list) < n THEN Len(list) ELSE n)

\* generate_tools down to _create_analysis_prompt: the functions the prompt
\* lists, none when generate_tools returns before the LLM is asked.
PromptFunctions(request, candidates) ==
    IF candidates = <<>> THEN <<>> ELSE Take(candidates, PromptLimit)

\* _generate_tools: filter_functions, then generate_tools.
FilterThenGenerate(request, all_functions) ==
    PromptFunctions(request, FilterFunctions(all_functions, CliFilters).filtered)

FilterRankThenGenerate(request, all_functions) ==
    PromptFunctions(request,
        RankWithKeywords(FilterFunctions(all_functions, CliFilters).filtered, request))

CliGenerateTools(request, all_functions) == FilterThenGenerate(request, all_functions)

NotAnalyzed ==
    [called |-> FALSE, op |-> "", request |-> <<>>,
     include_private |-> NoFilter, functions |-> <<>>]

PipelineIdle ==
    /\ py_file = [readable |-> TRUE, nodes |-> <<>>]
    /\ prompt = NotAnalyzed

\* The repository file's next definition, nested in the last one, beside it
\* or further out.
WriteRepositoryDefinition ==
    /\ Len(py_file.nodes) < MaxRepositoryNodes
    /\ \E depth \in 0..(IF py_file.nodes = <<>> THEN 0
                        ELSE py_file.nodes[Len(py_file.nodes)].depth + 1) :
          \E n \in {FunctionNode(name, ps, depth) :
                        name \in FunctionNames, ps \in ParameterLists}
                    \cup {ClassNode(name, depth) : name \in ClassNames} :
             py_file' = [py_file EXCEPT !.nodes = Append(@, n)]
    /\ prompt' = NotAnalyzed
    /\ UNCHANGED notPipeline

\* cli: _analyze_repository(repo_path, ...) and then _generate_tools(...)
CallAnalyze ==
    /\ ~prompt.called
    /\ \E api_request \in UserRequests :
          prompt' = [called |-> TRUE, op |-> "cli", request |-> api_request,
                     include_private |-> CliFilters.include_private,
                     functions |-> CliGenerateTools(api_request, AllFunctions(py_file))]
    /\ UNCHANGED py_file
    /\ UNCHANGED notPipeline

\* parser.parse_file(py_file) and then matcher.filter_functions(functions,
\* filters) with the include_private option absent, true or false.
CallParseThenFilter ==
    /\ ~prompt.called
    /\ \E option \in {NoFilter, Given(TRUE), Given(FALSE)} :
          prompt' = [called |-> TRUE, op |-> "filter", request |-> <<>>,
                     include_private |-> option,
                     functions |->
                         FilterFunctions(AllFunctions(py_file),
                                         [CliFilters EXCEPT !.include_private = option]).filtered]
    /\ UNCHANGED py_file
    /\ UNCHANGED notPipeline

InRelevanceOrder(list, request) ==
    \A i, j \in DOMAIN list :
        i < j => Score2(list[i], request) >= Score2(list[j], request)

\* C23: the functions the analyze pipeline hands to the LLM are in relevance
\* order for the request (ranked after filtering, before generation).
C23_PromptInRelevanceOrder ==
    (prompt.called /\ prompt.op = "cli") =>
        InRelevanceOrder(prompt.functions, prompt.request)

\* C23, what the pipeline does: the functions handed to the LLM are the
\* filtered ones in the order the parser found them.
C23_PromptInParseOrder ==
    (prompt.called /\ prompt.op = "cli") =>
        /\ \A k \in DOMAIN prompt.functions : KeepsPublic(prompt.functions[k])
        /\ \E pick \in [DOMAIN prompt.functions -> DOMAIN ParseFile(py_file)] :
              /\ \A i, j \in DOMAIN pick : i < j => pick[i] < pick[j]
              /\ \A i \in DOMAIN pick :
                    prompt.functions[i].line_number
                        = ParseFile(py_file)[pick[i]].line_number

HasSingleUnderscore(name) ==
    Len(name) >= 1 /\ name[1] = "_" /\ (Len(name) = 1 \/ name[2] # "_")

\* C29: after parse_file and then filter_functions, no function whose name
\* has exactly one leading underscore is left, whatever include_private is.
C29_NoSingleUnderscoreReachesGeneration ==
    prompt.called =>
        \A k \in DOMAIN prompt.functions : ~HasSingleUnderscore(prompt.functions[k].name)

C29_Witness ==
    /\ prompt.called
    /\ prompt.op = "filter"
    /\ prompt.include_private = Given(TRUE)
    /\ \E i \in DOMAIN py_file.nodes :
          /\ py_file.nodes[i].type = "function_definition"
          /\ HasSingleUnderscore(py_file.nodes[i].name)
    /\ prompt.functions # <<>>

(***************************************************************************)
(* core/semantic/api_matcher.py: rank_functions_by_relevance               *)
(*                                                                         *)
(* The embedding provider is known by what its calls do: whether           *)
(* create_embedding_provider raises, whether encode or compute_similarity  *)
(* raises, and the similarity it gives each function (in tenths).          *)
(***************************************************************************)
MaxEmbedded == 2
MinSimilarity == -1

Similarities == {-2, -1, 5}

EmbeddedFunctionInfos ==
    { func \in InventoryFunctionInfos :
          /\ func.class_name = NoText
          /\ func.n_parameters = 0
          /\ func.docstring \in {NoText, Some(<<"Add", " ", "two", " ", "numbers">>)} }

\* What the provider's calls can do for n functions.
ProviderOutcomes(n) ==
    [raises : {"encode", "compute_similarity"}, similarities : {<<>>}]
    \cup [raises : {""}, similarities : [1..n -> Similarities]]

RECURSIVE InsertBySimilarity(_, _)
InsertBySimilarity(sorted, pair) ==
    IF sorted = <<>> THEN <<pair>>
    ELSE IF Head(sorted).sim >= pair.sim
         THEN <<Head(sorted)>> \o InsertBySimilarity(Tail(sorted), pair)
    ELSE <<pair>> \o sorted

RECURSIVE SortBySimilarity(_)
\* scored_functions.sort(key=lambda x: x[1], reverse=True)
SortBySimilarity(pairs) ==
    IF pairs = <<>> THEN <<>>
    ELSE InsertBySimilarity(SortBySimilarity(SubSeq(pairs, 1, Len(pairs) - 1)),
                            pairs[Len(pairs)])

FallBackToKeywords(fs, request) == RankWithKeywords(fs, request)

FallBackToInput(fs, request) == fs

\* The except branch of _rank_with_embeddings.
EmbeddingFallback(fs, request) == FallBackToKeywords(fs, request)

\* APIMatcher._rank_with_embeddings
RankWithEmbeddings(fs, request, outcome) ==
    IF fs = <<>> THEN <<>>
    ELSE IF outcome.raises # "" THEN EmbeddingFallback(fs, request)
    ELSE LET scored_functions ==
                 [k \in DOMAIN fs |-> [func |-> fs[k], sim |-> outcome.similarities[k]]]
             kept == SelectSeq(SortBySimilarity(scored_functions),
                               LAMBDA pair : pair.sim >= MinSimilarity)
         IN  [k \in DOMAIN kept |-> kept[k].func]

\* APIMatcher.rank_functions_by_relevance
RankFunctionsByRelevance(matcher_, fs, request, outcome) ==
    IF matcher_.use_embeddings /\ matcher_.embedding_provider
    THEN RankWithEmbeddings(fs, request, outcome)
    ELSE RankWithKeywords(fs, request)

\* APIMatcher.__init__: the embedding provider and use_embeddings.
APIMatcherInit(create_raises) ==
    IF create_raises
    THEN [constructed |-> TRUE, embedding_provider |-> FALSE, use_embeddings |-> FALSE]
    ELSE [constructed |-> TRUE, embedding_provider |-> TRUE, use_embeddings |-> TRUE]

NoMatcher == [constructed |-> FALSE, embedding_provider |-> FALSE, use_embeddings |-> FALSE]

NoRanking ==
    [called |-> FALSE, request |-> <<>>, raises |-> "", functions |-> <<>>]

EmbeddingIdle ==
    /\ matcher = NoMatcher
    /\ to_rank = <<>>
    /\ ranking = NoRanking

ConstructAPIMatcher ==
    /\ ~matcher.constructed
    /\ \E create_raises \in BOOLEAN : matcher' = APIMatcherInit(create_raises)
    /\ UNCHANGED <<to_rank, ranking>>
    /\ UNCHANGED notEmbedding

AddFunctionToRank ==
    /\ Len(to_rank) < MaxEmbedded
    /\ \E func \in EmbeddedFunctionInfos : to_rank' = Append(to_rank, func)
    /\ ranking' = NoRanking
    /\ UNCHANGED matcher
    /\ UNCHANGED notEmbedding

\* matcher.rank_functions_by_relevance(functions, user_request)
CallRankFunctionsByRelevance ==
    /\ matcher.constructed
    /\ ~ranking.called
    /\ \E request \in UserRequests, outcome \in ProviderOutcomes(Len(to_rank)) :
          ranking' = [called |-> TRUE, request |-> request,
                      raises |-> IF matcher.use_embeddings /\ to_rank # <<>>
                                 THEN outcome.raises ELSE "",
                      functions |-> RankFunctionsByRelevance(matcher, to_rank,
                                                             request, outcome)]
    /\ UNCHANGED <<matcher, to_rank>>
    /\ UNCHANGED notEmbedding

ProviderFailed == ~matcher.use_embeddings \/ ranking.raises # ""

\* C24: when the embedding provider failed to initialize, or raised during
\* encoding or similarity computation, rank_functions_by_relevance returns
\* (it does not raise) exactly the keyword-mode ranking of the same
\* functions and request.
C24_FallbackIsKeywordRanking ==
    (ranking.called /\ ProviderFailed) =>
        ranking.functions = RankWithKeywords(to_rank, ranking.request)

C24_Witness ==
    /\ ranking.called
    /\ matcher.use_embeddings
    /\ ranking.raises = "compute_similarity"
    /\ Len(to_rank) = 2
    /\ ranking.functions # to_rank

(***************************************************************************)
(* detect/openai.py _detect_generic_tools: the definitions of one file     *)
(*                                                                         *)
(* The file's syntax tree is the preorder list of its definitions, each    *)
(* with its nesting depth: ast.FunctionDef, ast.AsyncFunctionDef and       *)
(* ast.ClassDef nodes.                                                     *)
(***************************************************************************)
MaxDefinitions == 2

AstNode(type, name, args, depth) ==
    [type |-> type, name |-> name, args |-> args, depth |-> depth]

AstNodes(depth) ==
    { AstNode(type, name, args, depth) :
          type \in {"FunctionDef", "AsyncFunctionDef"},
          name \in { <<"run">>, <<"_", "hidden">> },
          args \in { <<>>, <<"self", "x">> } }
    \cup { AstNode("ClassDef", <<"A">>, <<>>, depth) }

RECURSIVE ByDepth(_, _, _)
\* ast.walk(tree): breadth first, so the nodes of one depth in their order,
\* the shallower depth first.
ByDepth(nodes, depth, deepest) ==
    IF depth > deepest THEN <<>>
    ELSE SelectSeq(nodes, LAMBDA n : n.depth = depth) \o ByDepth(nodes, depth + 1, deepest)

AstWalk(nodes) == ByDepth(nodes, 0, Len(nodes))

\* isinstance(node, ast.FunctionDef)
IsFunctionDef(node) == node.type = "FunctionDef"

\* The nodes of the walk the loop of _detect_generic_tools looks at.
WalkedFunctionDefs(nodes) ==
    LET found == SelectSeq(AstWalk(nodes), IsFunctionDef)
    IN  [i \in DOMAIN found |-> Def(found[i].name, found[i].args)]

\* _detect_generic_tools for one main file.
GenericToolsOfTree(nodes) ==
    FileGenericTools([EmptyText EXCEPT !.defs = WalkedFunctionDefs(nodes)])

NoGenericTools == [called |-> FALSE, tools |-> <<>>]

GenericIdle ==
    /\ ast_tree = <<>>
    /\ generic_tools = NoGenericTools

\* The file's next definition, nested in the last one, beside it or further out.
WriteAstNode ==
    /\ Len(ast_tree) < MaxDefinitions
    /\ \E depth \in 0..(IF ast_tree = <<>> THEN 0 ELSE ast_tree[Len(ast_tree)].depth + 1) :
          \E node \in AstNodes(depth) : ast_tree' = Append(ast_tree, node)
    /\ generic_tools' = NoGenericTools
    /\ UNCHANGED notGeneric

\* _detect_generic_tools(project_path, project_info) with one main file
CallDetectGenericTools ==
    /\ ~generic_tools.called
    /\ generic_tools' = [called |-> TRUE, tools |-> GenericToolsOfTree(ast_tree)]
    /\ UNCHANGED ast_tree
    /\ UNCHANGED notGeneric

PublicTopLevel(name) ==
    {i \in DOMAIN ast_tree :
        /\ ast_tree[i].type \in {"FunctionDef", "AsyncFunctionDef"}
        /\ ast_tree[i].depth = 0
        /\ ast_tree[i].name = name
        /\ ast_tree[i].name[1] # "_"}

ToolsCalled(name) ==
    {k \in DOMAIN generic_tools.tools : generic_tools.tools[k].name = name}

\* C27: generic extraction gives one tool for every public function, sync or
\* async, defined at the top level of the file, none for a method or a nested
\* function, and types every parameter 'string'.
C27_ToolsArePublicTopLevelFunctions ==
    generic_tools.called =>
        /\ \A i \in DOMAIN ast_tree :
              Cardinality(ToolsCalled(ast_tree[i].name))
                  = Cardinality(PublicTopLevel(ast_tree[i].name))
        /\ \A k \in DOMAIN generic_tools.tools :
              \A p \in DOMAIN generic_tools.tools[k].parameters :
                  generic_tools.tools[k].parameters[p].type = "string"

\* C27, what the extraction does: one tool for every public ast.FunctionDef
\* of the file, wherever it is defined, none for an async function, and every
\* parameter typed 'string'.
C27_ToolsArePublicFunctionDefs ==
    generic_tools.called =>
        /\ \A i \in DOMAIN ast_tree :
              Cardinality(ToolsCalled(ast_tree[i].name))
                  = Cardinality({j \in DOMAIN ast_tree :
                                    /\ ast_tree[j].type = "FunctionDef"
                                    /\ ast_tree[j].name = ast_tree[i].name
                                    /\ ast_tree[j].name[1] # "_"})
        /\ \A k \in DOMAIN generic_tools.tools :
              \A p \in DOMAIN generic_tools.tools[k].parameters :
                  generic_tools.tools[k].parameters[p].type = "string"

(***************************************************************************)
(* core/generation/runner.py: MCPServerRunner                              *)
(*                                                                         *)
(* A process is a number; it runs or has exited.  A server id is the       *)
(* repository name and the second it was registered in; every              *)
(* setup_and_run_server sleeps two seconds, so the clock moves on with it. *)
(***************************************************************************)
MaxStarted == 2

RepositoryNames == {"calc", "chat"}

NoProcess == 0
NoServerId == <<>>

ServerIds == {<<name, t>> : name \in RepositoryNames, t \in 1..(MaxStarted + 1)}

\* What setting up and starting can come to.
StartOutcomes == {"venv fails", "start fails", "exits at once", "runs"}

\* What stopping a running process can come to: it ends on terminate(), it
\* ends on kill(), or the wait after kill() times out too.
StopOutcomes == {"terminated", "killed", "wait times out"}

IsRegistered(servers, server_id) == \E s \in servers : s.server_id = server_id

ProcessOf(servers, server_id) ==
    (CHOOSE s \in servers : s.server_id = server_id).process

\* self.active_servers[server_id] = process
Register(servers, server_id, process) ==
    {s \in servers : s.server_id # server_id}
    \cup {[server_id |-> server_id, process |-> process]}

\* MCPServerRunner.setup_and_run_server: the registry, the processes and
\* the success flag it returns.
SetupAndRunServer(r, name, outcome) ==
    IF outcome \in {"venv fails", "start fails"}
    THEN [r EXCEPT !.returned = FALSE]
    ELSE LET process == Len(r.processes) + 1
         IN  IF outcome = "exits at once"
             THEN [r EXCEPT !.processes = Append(@, "exited"),
                            !.clock = @ + 1,
                            !.returned = FALSE]
             ELSE [r EXCEPT !.processes = Append(@, "running"),
                            !.clock = @ + 1,
                            !.active_servers = Register(@, <<name, r.clock + 1>>, process),
                            !.returned = TRUE]

\* The del statements of stop_server: the registry without the target.
Unregister(servers, server_id, process) ==
    IF server_id # NoServerId /\ IsRegistered(servers, server_id)
    THEN {s \in servers : s.server_id # server_id}
    ELSE IF process # NoProcess /\ \E s \in servers : s.process = process
    THEN servers \ {CHOOSE s \in servers : s.process = process}
    ELSE servers

\* target_process of stop_server
TargetProcess(servers, server_id, process) ==
    IF server_id # NoServerId /\ IsRegistered(servers, server_id)
    THEN ProcessOf(servers, server_id)
    ELSE process

\* MCPServerRunner.stop_server
StopServer(r, server_id, process, outcome) ==
    LET target_process == TargetProcess(r.active_servers, server_id, process)
        unregistered == [r EXCEPT !.active_servers = Unregister(@, server_id, process)]
    IN  IF target_process = NoProcess THEN [unregistered EXCEPT !.returned = FALSE]
        ELSE IF r.processes[target_process] = "exited"
        THEN [unregistered EXCEPT !.returned = TRUE]
        ELSE IF outcome = "wait times out"
        THEN [unregistered EXCEPT !.returned = FALSE]
        ELSE [unregistered EXCEPT !.processes[target_process] = "exited",
                                  !.returned = TRUE]

RECURSIVE StopEach(_, _, _)
\* for server_id in list(self.active_servers.keys()): self.stop_server(server_id)
StopEach(r, ids, outcome) ==
    IF ids = {} THEN r
    ELSE LET server_id == CHOOSE s \in ids : TRUE
         IN  StopEach(StopServer(r, server_id, NoProcess, outcome),
                      ids \ {server_id}, outcome)

\* MCPServerRunner.stop_all_servers; cleanup calls it.
StopAllServers(r, outcome) ==
    StopEach(r, {s.server_id : s \in r.active_servers}, outcome)

\* MCPServerRunner.__init__
RunnerInit ==
    [active_servers |-> {}, processes |-> <<>>, clock |-> 0, returned |-> FALSE]

NoRunnerCall == [op |-> "", before |-> {}, alive |-> FALSE]

RunnerIdle ==
    /\ runner = RunnerInit
    /\ last_call = NoRunnerCall

\* runner.setup_and_run_server(repository, server_path)
CallSetupAndRunServer ==
    /\ Len(runner.processes) < MaxStarted
    /\ \E name \in RepositoryNames, outcome \in StartOutcomes :
          /\ runner' = SetupAndRunServer(runner, name, outcome)
          /\ last_call' = [op |-> "setup_and_run_server",
                           before |-> runner.active_servers,
                           alive |-> outcome = "runs"]
    /\ UNCHANGED notRunner

\* runner.stop_server(server_id, process)
CallStopServer ==
    /\ \E server_id \in ServerIds \cup {NoServerId},
          process \in (DOMAIN runner.processes) \cup {NoProcess},
          outcome \in StopOutcomes :
          /\ runner' = StopServer(runner, server_id, process, outcome)
          /\ last_call' = [op |-> "stop_server", before |-> runner.active_servers,
                           alive |-> FALSE]
    /\ UNCHANGED notRunner

\* runner.stop_all_servers() and runner.cleanup()
CallStopAllServers ==
    /\ \E op \in {"stop_all_servers", "cleanup"}, outcome \in StopOutcomes :
          /\ runner' = StopAllServers(runner, outcome)
          /\ last_call' = [op |-> op, before |-> runner.active_servers,
                           alive |-> FALSE]
    /\ UNCHANGED notRunner

\* A server process ends by itself.
ProcessExits ==
    /\ \E process \in DOMAIN runner.processes :
          /\ runner.processes[process] = "running"
          /\ runner' = [runner EXCEPT !.processes[process] = "exited"]
    /\ UNCHANGED last_call
    /\ UNCHANGED notRunner

AddedOnlyWhenRunning ==
    last_call.op = "setup_and_run_server" =>
        /\ last_call.before \subseteq runner.active_servers
        /\ runner.active_servers # last_call.before => last_call.alive

FalseLeavesRegistry ==
    (last_call.op = "stop_server" /\ ~runner.returned) =>
        runner.active_servers = last_call.before

EmptyAfterStopAll ==
    last_call.op \in {"stop_all_servers", "cleanup"} => runner.active_servers = {}

\* C30: a server is added to active_servers only when its process still runs
\* after start-up; a stop_server that returns False leaves the registry as it
\* was; after stop_all_servers or cleanup the registry is empty.
C30_RegistryFollowsTheCalls ==
    AddedOnlyWhenRunning /\ FalseLeavesRegistry /\ EmptyAfterStopAll

\* C30 without the stop_server part: servers are added only when running
\* after start-up, stop_server only ever removes entries, and the registry is
\* empty after stop_all_servers or cleanup.
C30_AddedRunningAndEmptied ==
    /\ AddedOnlyWhenRunning
    /\ last_call.op = "stop_server" => runner.active_servers \subseteq last_call.before
    /\ EmptyAfterStopAll

(***************************************************************************)
(* Specifications                                                          *)
(***************************************************************************)
InitComposite ==
    /\ CompositeIdle /\ CtorIdle /\ ParserIdle /\ RankIdle /\ SchemaIdle
    /\ ArgparseIdle /\ RouteIdle
    /\ LlmIdle
    /\ GenerateIdle
    /\ FilterIdle
    /\ CommandsIdle
    /\ SignatureIdle
    /\ ProjectIdle
    /\ DependenciesIdle
    /\ ReadmeIdle
    /\ PipelineIdle
    /\ EmbeddingIdle
    /\ GenericIdle
    /\ RunnerIdle
NextComposite == AddDetector \/ DetectTools
SpecComposite == InitComposite /\ [][NextComposite]_vars

InitCtor ==
    /\ CtorInit /\ CompositeIdle /\ ParserIdle /\ RankIdle /\ SchemaIdle
    /\ ArgparseIdle /\ RouteIdle
    /\ LlmIdle
    /\ GenerateIdle
    /\ FilterIdle
    /\ CommandsIdle
    /\ SignatureIdle
    /\ ProjectIdle
    /\ DependenciesIdle
    /\ ReadmeIdle
    /\ PipelineIdle
    /\ EmbeddingIdle
    /\ GenericIdle
    /\ RunnerIdle
NextCtor ==
    \/ SetEnv
    \/ ConstructOpenaiDetector
    \/ ConstructCamelDetector
    \/ ConstructLLMClient
    \/ CallCreateDetector
    \/ CallCreateLocalOnlyDetector
SpecCtor == InitCtor /\ [][NextCtor]_vars

InitParser ==
    /\ ParserInit /\ CompositeIdle /\ CtorIdle /\ RankIdle /\ SchemaIdle
    /\ ArgparseIdle /\ RouteIdle
    /\ LlmIdle
    /\ GenerateIdle
    /\ FilterIdle
    /\ CommandsIdle
    /\ SignatureIdle
    /\ ProjectIdle
    /\ DependenciesIdle
    /\ ReadmeIdle
    /\ PipelineIdle
    /\ EmbeddingIdle
    /\ GenericIdle
    /\ RunnerIdle
NextParser == WriteDefinition \/ CallParseFile
SpecParser == InitParser /\ [][NextParser]_vars

InitRank ==
    /\ RankInit /\ CompositeIdle /\ CtorIdle /\ ParserIdle /\ SchemaIdle
    /\ ArgparseIdle /\ RouteIdle
    /\ LlmIdle
    /\ GenerateIdle
    /\ FilterIdle
    /\ CommandsIdle
    /\ SignatureIdle
    /\ ProjectIdle
    /\ DependenciesIdle
    /\ ReadmeIdle
    /\ PipelineIdle
    /\ EmbeddingIdle
    /\ GenericIdle
    /\ RunnerIdle
NextRank == AddFunction \/ CallRankWithKeywords
SpecRank == InitRank /\ [][NextRank]_vars

InitScore ==
    /\ ScoreInit /\ CompositeIdle /\ CtorIdle /\ ParserIdle /\ SchemaIdle
    /\ ArgparseIdle /\ RouteIdle
    /\ LlmIdle
    /\ GenerateIdle
    /\ FilterIdle
    /\ CommandsIdle
    /\ SignatureIdle
    /\ ProjectIdle
    /\ DependenciesIdle
    /\ ReadmeIdle
    /\ PipelineIdle
    /\ EmbeddingIdle
    /\ GenericIdle
    /\ RunnerIdle
NextScore == ScoreCandidate \/ AddOverlappingWord
SpecScore == InitScore /\ [][NextScore]_vars

InitSchema ==
    /\ SchemaIdle /\ CompositeIdle /\ CtorIdle /\ ParserIdle /\ RankIdle
    /\ ArgparseIdle /\ RouteIdle
    /\ LlmIdle
    /\ GenerateIdle
    /\ FilterIdle
    /\ CommandsIdle
    /\ SignatureIdle
    /\ ProjectIdle
    /\ DependenciesIdle
    /\ ReadmeIdle
    /\ PipelineIdle
    /\ EmbeddingIdle
    /\ GenericIdle
    /\ RunnerIdle
NextSchema == AddParameter \/ CallToMcpSchema
SpecSchema == InitSchema /\ [][NextSchema]_vars

InitArgparse ==
    /\ ArgparseIdle /\ CompositeIdle /\ CtorIdle /\ ParserIdle /\ RankIdle
    /\ SchemaIdle /\ RouteIdle
    /\ LlmIdle
    /\ GenerateIdle
    /\ FilterIdle
    /\ CommandsIdle
    /\ SignatureIdle
    /\ ProjectIdle
    /\ DependenciesIdle
    /\ ReadmeIdle
    /\ PipelineIdle
    /\ EmbeddingIdle
    /\ GenericIdle
    /\ RunnerIdle
NextArgparse == WriteAddArgument \/ WriteKeyword \/ CallDetectCliTools
SpecArgparse == InitArgparse /\ [][NextArgparse]_vars

InitRoute ==
    /\ RouteInit /\ CompositeIdle /\ CtorIdle /\ ParserIdle /\ RankIdle
    /\ SchemaIdle /\ ArgparseIdle
    /\ LlmIdle
    /\ GenerateIdle
    /\ FilterIdle
    /\ CommandsIdle
    /\ SignatureIdle
    /\ ProjectIdle
    /\ DependenciesIdle
    /\ ReadmeIdle
    /\ PipelineIdle
    /\ EmbeddingIdle
    /\ GenericIdle
    /\ RunnerIdle
NextRoute == WriteSegment \/ WriteQueryParam \/ CallProcessRoute
SpecRoute == InitRoute /\ [][NextRoute]_vars

InitLlm ==
    /\ LlmIdle
    /\ CompositeIdle /\ CtorIdle /\ ParserIdle /\ RankIdle /\ SchemaIdle
    /\ ArgparseIdle /\ RouteIdle
    /\ GenerateIdle
    /\ FilterIdle
    /\ CommandsIdle
    /\ SignatureIdle
    /\ ProjectIdle
    /\ DependenciesIdle
    /\ ReadmeIdle
    /\ PipelineIdle
    /\ EmbeddingIdle
    /\ GenericIdle
    /\ RunnerIdle
NextLlm == WriteElement \/ CutOff \/ AddProse \/ CallParseAnalysisResponse \/ CallAgentDetectTools
SpecLlm == InitLlm /\ [][NextLlm]_vars

InitGenerate ==
    /\ GenerateIdle
    /\ CompositeIdle /\ CtorIdle /\ ParserIdle /\ RankIdle /\ SchemaIdle
    /\ ArgparseIdle /\ RouteIdle /\ LlmIdle
    /\ FilterIdle
    /\ CommandsIdle
    /\ SignatureIdle
    /\ ProjectIdle
    /\ DependenciesIdle
    /\ ReadmeIdle
    /\ PipelineIdle
    /\ EmbeddingIdle
    /\ GenericIdle
    /\ RunnerIdle
NextGenerate == AddAvailableFunction \/ AddToolSpec \/ CallGenerateTools
SpecGenerate == InitGenerate /\ [][NextGenerate]_vars

InitFilter ==
    /\ FilterInit
    /\ CompositeIdle /\ CtorIdle /\ ParserIdle /\ RankIdle /\ SchemaIdle
    /\ ArgparseIdle /\ RouteIdle /\ LlmIdle /\ GenerateIdle
    /\ CommandsIdle
    /\ SignatureIdle
    /\ ProjectIdle
    /\ DependenciesIdle
    /\ ReadmeIdle
    /\ PipelineIdle
    /\ EmbeddingIdle
    /\ GenericIdle
    /\ RunnerIdle
NextFilter == AddUnfiltered \/ CallFilterFunctions
SpecFilter == InitFilter /\ [][NextFilter]_vars

InitCommands ==
    /\ CommandsIdle
    /\ CompositeIdle /\ CtorIdle /\ ParserIdle /\ RankIdle /\ SchemaIdle
    /\ ArgparseIdle /\ RouteIdle /\ LlmIdle /\ GenerateIdle /\ FilterIdle
    /\ SignatureIdle
    /\ ProjectIdle
    /\ DependenciesIdle
    /\ ReadmeIdle
    /\ PipelineIdle
    /\ EmbeddingIdle
    /\ GenericIdle
    /\ RunnerIdle
NextCommands == WriteComparison \/ CallExtractCommandPatterns
SpecCommands == InitCommands /\ [][NextCommands]_vars

InitSignature ==
    /\ SignatureIdle
    /\ CompositeIdle /\ CtorIdle /\ ParserIdle /\ RankIdle /\ SchemaIdle
    /\ ArgparseIdle /\ RouteIdle /\ LlmIdle /\ GenerateIdle /\ FilterIdle
    /\ CommandsIdle
    /\ ProjectIdle
    /\ DependenciesIdle
    /\ ReadmeIdle
    /\ PipelineIdle
    /\ EmbeddingIdle
    /\ GenericIdle
    /\ RunnerIdle
NextSignature == WriteParameter \/ CallExtractParameters
SpecSignature == InitSignature /\ [][NextSignature]_vars

InitProject ==
    /\ ProjectInit
    /\ CompositeIdle /\ CtorIdle /\ ParserIdle /\ RankIdle /\ SchemaIdle
    /\ ArgparseIdle /\ RouteIdle /\ LlmIdle /\ GenerateIdle /\ FilterIdle
    /\ CommandsIdle /\ SignatureIdle
    /\ DependenciesIdle
    /\ ReadmeIdle
    /\ PipelineIdle
    /\ EmbeddingIdle
    /\ GenericIdle
    /\ RunnerIdle
NextProject ==
    MakeDirectory \/ CreateFile \/ CallDetectProject \/ CallGenerateBackendConfig
SpecProject == InitProject /\ [][NextProject]_vars

InitDependencies ==
    /\ DependenciesIdle
    /\ CompositeIdle /\ CtorIdle /\ ParserIdle /\ RankIdle /\ SchemaIdle
    /\ ArgparseIdle /\ RouteIdle /\ LlmIdle /\ GenerateIdle /\ FilterIdle
    /\ CommandsIdle /\ SignatureIdle /\ ProjectIdle
    /\ ReadmeIdle
    /\ PipelineIdle
    /\ EmbeddingIdle
    /\ GenericIdle
    /\ RunnerIdle
NextDependencies == WriteRequirement \/ WriteManifestDependency \/ CallExtractDependencies \/ CallAnalyzeRepository
SpecDependencies == InitDependencies /\ [][NextDependencies]_vars

InitReadme ==
    /\ ReadmeIdle
    /\ CompositeIdle /\ CtorIdle /\ ParserIdle /\ RankIdle /\ SchemaIdle
    /\ ArgparseIdle /\ RouteIdle /\ LlmIdle /\ GenerateIdle /\ FilterIdle
    /\ CommandsIdle /\ SignatureIdle /\ ProjectIdle /\ DependenciesIdle
    /\ PipelineIdle
    /\ EmbeddingIdle
    /\ GenericIdle
    /\ RunnerIdle
NextReadme == CreateReadme \/ WriteReadmeLine \/ CallExtractDescription
SpecReadme == InitReadme /\ [][NextReadme]_vars

InitPipeline ==
    /\ PipelineIdle
    /\ CompositeIdle /\ CtorIdle /\ ParserIdle /\ RankIdle /\ SchemaIdle
    /\ ArgparseIdle /\ RouteIdle /\ LlmIdle /\ GenerateIdle /\ FilterIdle
    /\ CommandsIdle /\ SignatureIdle /\ ProjectIdle /\ DependenciesIdle
    /\ ReadmeIdle
    /\ EmbeddingIdle
    /\ GenericIdle
    /\ RunnerIdle
NextPipeline == WriteRepositoryDefinition \/ CallAnalyze \/ CallParseThenFilter
SpecPipeline == InitPipeline /\ [][NextPipeline]_vars

InitEmbedding ==
    /\ EmbeddingIdle
    /\ CompositeIdle /\ CtorIdle /\ ParserIdle /\ RankIdle /\ SchemaIdle
    /\ ArgparseIdle /\ RouteIdle /\ LlmIdle /\ GenerateIdle /\ FilterIdle
    /\ CommandsIdle /\ SignatureIdle /\ ProjectIdle /\ DependenciesIdle
    /\ ReadmeIdle /\ PipelineIdle
    /\ GenericIdle
    /\ RunnerIdle
NextEmbedding == ConstructAPIMatcher \/ AddFunctionToRank \/ CallRankFunctionsByRelevance
SpecEmbedding == InitEmbedding /\ [][NextEmbedding]_vars

InitGeneric ==
    /\ GenericIdle
    /\ CompositeIdle /\ CtorIdle /\ ParserIdle /\ RankIdle /\ SchemaIdle
    /\ ArgparseIdle /\ RouteIdle /\ LlmIdle /\ GenerateIdle /\ FilterIdle
    /\ CommandsIdle /\ SignatureIdle /\ ProjectIdle /\ DependenciesIdle
    /\ ReadmeIdle /\ PipelineIdle /\ EmbeddingIdle
    /\ RunnerIdle
NextGeneric == WriteAstNode \/ CallDetectGenericTools
SpecGeneric == InitGeneric /\ [][NextGeneric]_vars

InitRunner ==
    /\ RunnerIdle
    /\ CompositeIdle /\ CtorIdle /\ ParserIdle /\ RankIdle /\ SchemaIdle
    /\ ArgparseIdle /\ RouteIdle /\ LlmIdle /\ GenerateIdle /\ FilterIdle
    /\ CommandsIdle /\ SignatureIdle /\ ProjectIdle /\ DependenciesIdle
    /\ ReadmeIdle /\ PipelineIdle /\ EmbeddingIdle /\ GenericIdle
NextRunner == CallSetupAndRunServer \/ CallStopServer \/ CallStopAllServers \/ ProcessExits
SpecRunner == InitRunner /\ [][NextRunner]_vars

====
